---- MODULE Spec2Model ----
(***************************************************************************)
(* Boost reconciler of the iPhone screen monitor.                          *)
(*                                                                         *)
(* The program is a set of Node.js callbacks over module-level variables   *)
(* (main.ts) and the AirConnect capture object (airconnect/index.ts):      *)
(*   - the capture interval (7.5 s) calling AirConnect.captureScreen,      *)
(*   - the async 'screenData' handler, started synchronously by emit and   *)
(*     suspended at each of its awaits,                                    *)
(*   - the stale-boost watch (checkNoNewBoost, every 2 min),               *)
(*   - the failure watch (checkNumberFailures, every minute),              *)
(*   - the extreme-boost re-scan timer (2.5 s after an extreme boost).     *)
(* Only one callback body runs at a time; a callback gives up control at   *)
(* an await, and each action below is one run of a callback from one       *)
(* await (or its start) to the next await (or its end).                    *)
(*                                                                         *)
(* Encodings.  null is the empty tuple.  An odds string "+950" is the      *)
(* tuple <<"+", 950>> (its sign character and its decimal digits).  A      *)
(* percentage is a number with one decimal place and is held in tenths of  *)
(* a percent (50.0 % is 500); a nullable percentage is <<>> or <<tenths>>. *)
(* Date.now() is the variable now, in milliseconds since the start.        *)
(***************************************************************************)
EXTENDS Integers, Sequences, FiniteSets, Bags, TLC

VARIABLES
    now,                        \* Date.now()
    isCapturing,                \* AirConnect.isCapturing
    captureBodies,              \* captureScreen calls between the guard and the finally
    handlers,                   \* bag of suspended 'screenData' handler runs
    rescanTimers,               \* pending setTimeout(triggerImmediateCapture, 2500) callbacks
    lastBoostData,              \* main.ts lastBoostData (null or <<percentage, wasOdds, nowOdds>>)
    lastUniqueBoostTime,        \* main.ts lastUniqueBoostTime
    noNewBoostNotified,         \* main.ts noNewBoostNotified
    consecutiveNumberFailures,  \* main.ts consecutiveNumberFailures
    numberFailureNotified,      \* main.ts numberFailureNotified
    detectedPreBoostOdds,       \* main.ts detectedPreBoostOdds
    detectedPostBoostOdds,      \* main.ts detectedPostBoostOdds
    staleSends,                 \* number of checkNoNewBoost runs suspended in sendSystemAlert
    failureSends,               \* number of checkNumberFailures runs suspended in sendSystemAlert
    cycles,                     \* history: handler runs that reached their first await
    boostAlerts,                \* history: boost alerts handed to bot.sendBoostAlert
    staleAlerts,                \* history: stale alerts handed to the bot since the last new-boost transition
    failureAlerts,              \* history: failure alerts handed to the bot since the last successful parse
    oddsText,                   \* the OCR text of an odds crop, as a sequence of tokens (null: none)
    oddsParsed,                 \* what an odds parser has returned for oddsText (null: not called yet)
    percentageText,             \* the OCR text of a boost crop, as a sequence of words (null: none)
    percentageParsed,           \* what parsePercentageFromText has returned (null: not called yet)
    calculatorInput,            \* the arguments of a BoostCalculator call (null: none)
    calculatorResult            \* what the BoostCalculator has returned for them (null: not called yet)

\* AirConnect and its timers
capture == <<isCapturing, captureBodies, rescanTimers, cycles>>

\* BoostIdentity and HealthCounters
reconciler == <<lastBoostData, lastUniqueBoostTime, noNewBoostNotified,
                consecutiveNumberFailures, numberFailureNotified>>

detected == <<detectedPreBoostOdds, detectedPostBoostOdds>>

watches == <<staleSends, failureSends>>

alerts == <<boostAlerts, staleAlerts, failureAlerts>>

\* An odds parser of text-detection/index.ts on its own
percentageParser == <<percentageText, percentageParsed>>
calculator == <<calculatorInput, calculatorResult>>
parser == <<oddsText, oddsParsed, percentageParser, calculator>>

vars == <<now, handlers, capture, reconciler, detected, watches, alerts, parser>>

---------------------------------------------------------------------------
(* Program constants *)

NO_NEW_BOOST_TIMEOUT == 12 * 60 * 1000

MAX_NUMBER_FAILURES == 6

ExtremeBoostTenths == 490

---------------------------------------------------------------------------
(* Bounds of the model *)

\* 'screenData' handler runs that reach their first await in one behaviour
MaxCycles == 2

\* largest value of consecutiveNumberFailures
MaxFailureCount == 6

\* runs of one watch suspended in their alert send at the same time
MaxWatchInFlight == 1

---------------------------------------------------------------------------
(* Values *)

Null == <<>>

Plus(d) == <<"+", d>>

Minus(d) == <<"-", d>>

\* The instants (values of Date.now()) at which the model lets callbacks run:
\* the start, and the instants around the stale timeout counted from the start.
Instants ==
    { 0, NO_NEW_BOOST_TIMEOUT - 1, NO_NEW_BOOST_TIMEOUT, NO_NEW_BOOST_TIMEOUT + 1 }

\* What detectOddsComparison can return as (originalOdds, boostedOdds):
\* both null, or both strings.
OddsPairs ==
    { <<Plus(100), Plus(150)>>, <<Plus(200), Plus(250)>> }

OcrResults == { <<Null, Null>> } \cup OddsPairs

\* parseFloat(s.replace(/[^0-9.-]/g, '')) of an odds string
OddsValue(s) == IF s[1] = "-" THEN 0 - s[2] ELSE s[2]

\* Math.round(x) for the rational x = num / den, den > 0 (halves go up)
RoundHalfUp(num, den) == (2 * num + den) \div (2 * den)

RECURSIVE FloorLog2(_, _)
\* the largest j >= 0 with den * 2^j <= num, for num >= den > 0
FloorLog2(num, den) ==
    IF num < 2 * den THEN 0 ELSE 1 + FloorLog2(num \div 2, den)

RECURSIVE Pow2(_)
Pow2(n) == IF n = 0 THEN 1 ELSE 2 * Pow2(n - 1)

RECURSIVE Pow2Mod125(_)
\* 2^n modulo 125
Pow2Mod125(n) == IF n = 0 THEN 1 ELSE (2 * Pow2Mod125(n - 1)) % 125

\* The code computes ((now - was) / was) * 100 * 10 in IEEE doubles.  When the
\* exact value is m / 2 for an odd m >= 1, the double is fl(10 * fl(100 *
\* fl(m / 2000))) = fl(5 * fl(25 * fl(m / 125))) / 2, and FloatDeviation(m) is
\* the sign of that double minus m / 2: -1 below the half, 0 on it, 1 above.
\* With fl(m / 125) = N1 / 2^s1 for a 53 bit N1, c1 is the signed remainder of
\* m * 2^s1 by 125 (the error of the division), c2 the signed remainder of
\* 25 * N1 by 2^t (the error of the first product, nearest even), and the second
\* product is off m by (c1 + 5 * c2) / g units in the last place of m.
FloatDeviation(m) ==
    LET b1 == IF m >= 125 THEN FloorLog2(m, 125) ELSE FloorLog2(128 * m, 125) - 7
        s1 == 52 - b1
        \* m / 2^b1, a number from 125 to below 250, compared with k
        Below(k) == IF b1 >= 0 THEN m < k * Pow2(b1) ELSE m * Pow2(0 - b1) < k
        Equal(k) == IF b1 >= 0 THEN m = k * Pow2(b1) ELSE m * Pow2(0 - b1) = k
        r1 == ((m % 125) * Pow2Mod125(s1)) % 125
        c1 == IF r1 <= 62 THEN r1 ELSE r1 - 125
        t == IF Equal(160) THEN (IF c1 > 0 THEN 4 ELSE 5)
             ELSE IF Below(160) THEN 4 ELSE 5
        \* N1 modulo 64: 21 is the inverse of 125 modulo 64
        n1 == (((0 - c1) % 64) * 21) % 64
        a == (25 * n1) % 64
        r2 == a % Pow2(t)
        half == Pow2(t - 1)
        even == (a \div Pow2(t)) % 2 = 0
        c2 == IF r2 < half \/ (r2 = half /\ even) THEN r2 ELSE r2 - Pow2(t)
        g == IF Below(128) THEN 64 ELSE 128
        w == c1 + 5 * c2
    IN  IF (m > 1 /\ 2 * w > g) \/ (m = 1 /\ 4 * w > g) THEN 0 - 1
        ELSE IF 2 * w < 0 - g THEN 1
        ELSE 0

\* Math.round(((now - was) / was) * 100 * 10) / 10, in tenths of a percent.
\* The double differs from the exact quotient by less than the distance of the
\* quotient to a half, unless the quotient is a half itself; there Math.round
\* goes by the side of the half on which the double has fallen.
RoundedTenths(was, nowv) ==
    LET num == IF was > 0 THEN (nowv - was) * 1000 ELSE (was - nowv) * 1000
        den == IF was > 0 THEN was ELSE 0 - was
        magnitude == IF num < 0 THEN 0 - num ELSE num
        half == (2 * magnitude) % den = 0 /\ ((2 * magnitude) \div den) % 2 = 1
        deviation == FloatDeviation((2 * magnitude) \div den)
    IN  IF half /\ ((num > 0 /\ deviation < 0) \/ (num < 0 /\ deviation > 0))
        THEN RoundHalfUp(num, den) - 1
        ELSE RoundHalfUp(num, den)

\* main.ts 446-463: the percentage of a cycle from the detected odds
CalculatePercentage(originalOdds, boostedOdds) ==
    IF originalOdds # Null /\ boostedOdds # Null
    THEN IF OddsValue(originalOdds) # 0
         THEN << RoundedTenths(OddsValue(originalOdds), OddsValue(boostedOdds)) >>
         ELSE Null
    ELSE Null

\* isDifferentBoost with the comparison of nowOdds left out
DiffersFromIgnoringNowOdds(identity, currentPercentage, currentWasOdds, currentNowOdds) ==
    IF identity = Null
    THEN TRUE
    ELSE \/ identity[1] # currentPercentage
         \/ identity[2] # currentWasOdds

\* main.ts 176-202, on an explicit identity
DiffersFrom(identity, currentPercentage, currentWasOdds, currentNowOdds) ==
    IF identity = Null
    THEN TRUE
    ELSE LET percentageChanged == identity[1] # currentPercentage
             wasOddsChanged == identity[2] # currentWasOdds
             nowOddsChanged == identity[3] # currentNowOdds
         IN  IF percentageChanged THEN TRUE
             ELSE IF wasOddsChanged THEN TRUE
             ELSE IF nowOddsChanged THEN TRUE
             ELSE FALSE

isDifferentBoost(currentPercentage, currentWasOdds, currentNowOdds) ==
    DiffersFrom(lastBoostData, currentPercentage, currentWasOdds, currentNowOdds)

---------------------------------------------------------------------------
(* BoostCalculator: utils/boostCalculator.ts.  Its numbers are IEEE-754       *)
(* doubles, and every operation rounds its exact result to the nearest double, *)
(* ties to the even mantissa.                                                  *)

Abs(x) == IF x < 0 THEN 0 - x ELSE x

\* A natural number of any size is the sequence of its digits in base LimbBase,
\* lowest digit first and highest digit not 0; the number 0 is <<>>.
LimbBase == 32768

Limb(a, i) == IF i >= 1 /\ i <= Len(a) THEN a[i] ELSE 0

\* a without its highest digits that are 0
BigTrim(a) ==
    SubSeq(a, 1, Cardinality({ i \in 1 .. Len(a) : \E j \in i .. Len(a) : a[j] # 0 }))

\* a number below 2^31
BigOfNat(n) ==
    BigTrim(<<n % LimbBase, (n \div LimbBase) % LimbBase, n \div (LimbBase * LimbBase)>>)

\* a + b: digit by digit, with a carry into digit i when a lower digit sum
\* overflows and every digit sum between is LimbBase - 1
BigAdd(a, b) ==
    LET sum == [ i \in 1 .. (IF Len(a) > Len(b) THEN Len(a) ELSE Len(b)) + 1 |->
                   Limb(a, i) + Limb(b, i) ]
    IN  BigTrim([ i \in 1 .. Len(sum) |->
                    (sum[i] + IF \E j \in 1 .. i - 1 :
                                     /\ sum[j] >= LimbBase
                                     /\ \A k \in j + 1 .. i - 1 : sum[k] = LimbBase - 1
                              THEN 1 ELSE 0) % LimbBase ])

\* a - b, for a >= b: digit by digit, with a borrow from digit i when a lower
\* digit difference is negative and every digit difference between is 0
BigSub(a, b) ==
    LET difference == [ i \in 1 .. Len(a) |-> a[i] - Limb(b, i) ]
    IN  BigTrim([ i \in 1 .. Len(a) |->
                    (difference[i] + LimbBase
                        - IF \E j \in 1 .. i - 1 :
                                 /\ difference[j] < 0
                                 /\ \A k \in j + 1 .. i - 1 : difference[k] = 0
                          THEN 1 ELSE 0) % LimbBase ])

\* a < b
BigLess(a, b) ==
    \/ Len(a) < Len(b)
    \/ /\ Len(a) = Len(b)
       /\ \E i \in 1 .. Len(a) : a[i] < b[i] /\ \A j \in i + 1 .. Len(a) : a[j] = b[j]

\* a * k, for a number k below LimbBase
BigTimes(a, k) ==
    BigAdd([ i \in 1 .. Len(a) |-> (a[i] * k) % LimbBase ],
           [ i \in 1 .. Len(a) + 1 |-> IF i = 1 THEN 0 ELSE (a[i - 1] * k) \div LimbBase ])

\* a * b
RECURSIVE BigMul(_, _)
BigMul(a, b) ==
    IF a = <<>> \/ b = <<>> THEN <<>>
    ELSE IF b[1] = 0 THEN <<0>> \o BigMul(a, Tail(b))
    ELSE BigAdd(BigTimes(a, b[1]), <<0>> \o BigMul(a, Tail(b)))

\* a * 2^k
BigShift(a, k) ==
    IF a = <<>> THEN a ELSE [ i \in 1 .. k \div 15 |-> 0 ] \o BigTimes(a, 2^(k % 15))

\* a \div 2^k
BigShiftRight(a, k) ==
    BigTrim([ i \in 1 .. (IF Len(a) > k \div 15 THEN Len(a) - k \div 15 ELSE 0) |->
                (a[i + k \div 15] \div 2^(k % 15))
                    + (Limb(a, i + k \div 15 + 1) % 2^(k % 15)) * 2^(15 - (k % 15)) ])

\* the number of binary digits
BitLength(a) ==
    IF a = <<>>
    THEN 0
    ELSE 15 * (Len(a) - 1) + Cardinality({ j \in 0 .. 14 : 2^j <= a[Len(a)] })

\* the binary digit of a that counts 2^j
Bit(a, j) == (Limb(a, j \div 15 + 1) \div 2^(j % 15)) % 2

\* whether the binary digits of a below the one that counts 2^j are all 0
LowBitsZero(a, j) ==
    \A i \in 1 .. Len(a) :
        IF 15 * i <= j THEN a[i] = 0
        ELSE 15 * (i - 1) >= j \/ a[i] % 2^(j - 15 * (i - 1)) = 0

\* the number of lowest digits of a that are 0
LowZeros(a) == Cardinality({ i \in 1 .. Len(a) : \A j \in 1 .. i : a[j] = 0 })

\* Long division in base LimbBase by a divisor whose highest digit is at least
\* LimbBase / 2.  The next digit of the quotient is estimated from the two
\* highest digits of the rest; the estimate is the digit, or 1 or 2 above it.
BigDivEstimate(rest, divisor) ==
    LET estimate == (Limb(rest, Len(divisor) + 1) * LimbBase + Limb(rest, Len(divisor)))
                        \div divisor[Len(divisor)]
    IN  IF estimate > LimbBase - 1 THEN LimbBase - 1 ELSE estimate

\* the estimate is lowered until product = divisor * digit is within the rest
RECURSIVE BigDivCorrect(_, _, _, _, _)
BigDivCorrect(digits, rest, divisor, digit, product) ==
    IF BigLess(rest, product)
    THEN BigDivCorrect(digits, rest, divisor, digit - 1, BigSub(product, divisor))
    ELSE << <<digit>> \o digits, BigSub(rest, product) >>

\* state is <<the digits of the quotient so far, the rest>>: digit i of the
\* dividend is brought down and the next digit of the quotient is found
BigDivDigit(state, dividend, divisor, i) ==
    LET rest == BigTrim(<<dividend[i]>> \o state[2])
        digit == BigDivEstimate(rest, divisor)
    IN  BigDivCorrect(state[1], rest, divisor, digit, BigTimes(divisor, digit))

\* the state after the digits of the dividend from the highest down to digit i;
\* the highest Len(divisor) - 1 digits are below the divisor and are the first
\* rest
RECURSIVE BigDivDigits(_, _, _)
BigDivDigits(dividend, divisor, i) ==
    IF i > Len(dividend) - (Len(divisor) - 1)
    THEN << <<>>, BigTrim(SubSeq(dividend, i, Len(dividend))) >>
    ELSE BigDivDigit(BigDivDigits(dividend, divisor, i + 1), dividend, divisor, i)

\* A double is <<kind, sign, mantissa, exponent>>.  Kind "number" is the value
\* sign * mantissa * 2^exponent with sign 1 or -1 and a mantissa from 2^52 to
\* 2^53 - 1, or the value 0 with sign 1, mantissa 0 and exponent 0 (the sign of
\* a zero is not kept); kinds "Infinity" (with its sign) and "NaN" are the
\* values of those names.  The numbers of the calculator are far from the
\* smallest and the largest doubles, whose limits are left out.
NaN == <<"NaN", 1, <<>>, 0>>

Infinity(sign) == <<"Infinity", sign, <<>>, 0>>

Zero == <<"number", 1, <<>>, 0>>

IsZero(x) == x[1] = "number" /\ x[3] = <<>>

\* a mantissa that rounding up has carried to 2^53 is 2^52 with the next exponent
RoundCarried(sign, mantissa, exponent) ==
    IF BitLength(mantissa) = 54
    THEN <<"number", sign, BigShiftRight(mantissa, 1), exponent + 1>>
    ELSE <<"number", sign, mantissa, exponent>>

\* the double nearest to sign * (n + fraction) * 2^exponent, ties to the even
\* mantissa, for a fraction that is 0 or, when inexact, between 0 and 1 (then n
\* has 55 binary digits or more).  The lowest drop binary digits of n are cut.
RoundNatural(sign, n, exponent, inexact) ==
    LET drop == BitLength(n) - 53
        up == /\ Bit(n, drop - 1) = 1
              /\ inexact \/ ~LowBitsZero(n, drop - 1) \/ Bit(n, drop) = 1
    IN  IF n = <<>> THEN Zero
        ELSE IF drop <= 0
        THEN <<"number", sign, BigShift(n, 0 - drop), exponent + drop>>
        ELSE IF up
        THEN RoundCarried(sign, BigAdd(BigShiftRight(n, drop), <<1>>), exponent + drop)
        ELSE <<"number", sign, BigShiftRight(n, drop), exponent + drop>>

\* the quotient and the rest of a long division, rounded
RoundDivided(sign, state, exponent) ==
    RoundNatural(sign, BigTrim(state[1]), exponent, state[2] # <<>>)

\* the double nearest to sign * (n / d) * 2^exponent, ties to even, for n and d
\* below 2^53 and d other than 0.  The lowest digits 0 of n and d go into the
\* exponent; the divisor is scaled by 2^scale to a highest digit of at least
\* LimbBase / 2 and the dividend by 2^(k + scale) for a quotient of 55 or 56
\* binary digits.
RoundQuotient(sign, n, d, exponent) ==
    LET dividend == SubSeq(n, LowZeros(n) + 1, Len(n))
        divisor == SubSeq(d, LowZeros(d) + 1, Len(d))
        k == 55 - (BitLength(dividend) - BitLength(divisor))
        scale == (15 - (BitLength(divisor) % 15)) % 15
    IN  IF n = <<>> THEN Zero
        ELSE RoundDivided(sign,
                          BigDivDigits(BigShift(dividend, k + scale),
                                       BigShift(divisor, scale), 1),
                          exponent + 15 * (LowZeros(n) - LowZeros(d)) - k)

\* the double of an integer, and of the quotient n / d of two integers, d > 0
\* (the number that a decimal literal such as 35.3 = 353 / 10 denotes)
DoubleOfInt(n) == RoundNatural(IF n < 0 THEN 0 - 1 ELSE 1, BigOfNat(Abs(n)), 0, FALSE)

DoubleOfRatio(n, d) ==
    RoundQuotient(IF n < 0 THEN 0 - 1 ELSE 1, BigOfNat(Abs(n)), BigOfNat(d), 0)

\* the literals 100 and 1
DoubleHundred == DoubleOfInt(100)

DoubleOne == DoubleOfInt(1)

\* x / y
DoubleDiv(x, y) ==
    IF x[1] = "NaN" \/ y[1] = "NaN" THEN NaN
    ELSE IF x[1] = "Infinity"
         THEN IF y[1] = "Infinity" THEN NaN ELSE Infinity(x[2] * y[2])
    ELSE IF y[1] = "Infinity" THEN Zero
    ELSE IF IsZero(y) THEN IF IsZero(x) THEN NaN ELSE Infinity(x[2] * y[2])
    ELSE RoundQuotient(x[2] * y[2], x[3], y[3], x[4] - y[4])

\* x * y
DoubleMul(x, y) ==
    IF x[1] = "NaN" \/ y[1] = "NaN" THEN NaN
    ELSE IF x[1] = "Infinity" \/ y[1] = "Infinity"
         THEN IF IsZero(x) \/ IsZero(y) THEN NaN ELSE Infinity(x[2] * y[2])
    ELSE RoundNatural(x[2] * y[2], BigMul(x[3], y[3]), x[4] + y[4], FALSE)

\* sign * a * 2^exponent + otherSign * b * 2^exponent
DoubleAddAligned(sign, a, otherSign, b, exponent) ==
    RoundNatural(IF sign = otherSign \/ ~BigLess(a, b) THEN sign ELSE otherSign,
                 IF sign = otherSign THEN BigAdd(a, b)
                 ELSE IF BigLess(a, b) THEN BigSub(b, a)
                 ELSE BigSub(a, b),
                 exponent, FALSE)

\* x + y
DoubleAdd(x, y) ==
    IF x[1] = "NaN" \/ y[1] = "NaN" THEN NaN
    ELSE IF x[1] = "Infinity"
         THEN IF y[1] = "Infinity" /\ y[2] # x[2] THEN NaN ELSE x
    ELSE IF y[1] = "Infinity" THEN y
    ELSE LET exponent == IF x[4] < y[4] THEN x[4] ELSE y[4]
         IN  DoubleAddAligned(x[2], BigShift(x[3], x[4] - exponent),
                              y[2], BigShift(y[3], y[4] - exponent), exponent)

DoubleNeg(x) == IF x[1] = "NaN" \/ IsZero(x) THEN x ELSE <<x[1], 0 - x[2], x[3], x[4]>>

\* x - y
DoubleSub(x, y) == DoubleAdd(x, DoubleNeg(y))

\* Math.abs
DoubleAbs(x) == <<x[1], 1, x[3], x[4]>>

\* the sign of a difference y - x is that of a positive number
DoublePositive(difference) ==
    difference[1] # "NaN" /\ difference[2] = 1 /\ ~IsZero(difference)

\* x < y
DoubleLess(x, y) == DoublePositive(DoubleSub(y, x))

\* x >= y
DoubleAtLeast(x, y) == x[1] # "NaN" /\ y[1] # "NaN" /\ ~DoubleLess(x, y)

\* the integer sign * floor((halves + 1) / 2) for a number that holds halves
\* whole halves, exactly or with more behind them; a negative number that is
\* exact gives sign * floor(halves / 2)
RoundedHalves(sign, halves, exact) ==
    RoundNatural(sign,
                 BigShiftRight(IF sign < 0 /\ exact THEN halves ELSE BigAdd(halves, <<1>>), 1),
                 0, FALSE)

\* Math.round: the integer nearest to x, the upper one of two that are equally
\* near, which is floor(x + 1/2)
MathRound(x) ==
    IF x[1] # "number" \/ IsZero(x) \/ x[4] >= 0
    THEN x
    ELSE RoundedHalves(x[2], BigShiftRight(x[3], 0 - x[4] - 1),
                       LowBitsZero(x[3], 0 - x[4] - 1))

\* parseInt(americanOdds.replace(/[+\-]/g, '')) of a string of a sign and digits
parseOdds(americanOdds) == DoubleOfInt(americanOdds[2])

\* the conversion without the returned stake
americanToDecimalWithoutStake(americanOdds) ==
    IF americanOdds[1] = "+" THEN DoubleDiv(parseOdds(americanOdds), DoubleHundred)
    ELSE IF americanOdds[1] = "-" THEN DoubleDiv(DoubleHundred, parseOdds(americanOdds))
    ELSE DoubleDiv(parseOdds(americanOdds), DoubleHundred)

\* lines 17-28
americanToDecimal(americanOdds) ==
    IF americanOdds[1] = "+"
    THEN DoubleAdd(DoubleDiv(parseOdds(americanOdds), DoubleHundred), DoubleOne)
    ELSE IF americanOdds[1] = "-"
    THEN DoubleAdd(DoubleDiv(DoubleHundred, parseOdds(americanOdds)), DoubleOne)
    ELSE DoubleAdd(DoubleDiv(parseOdds(americanOdds), DoubleHundred), DoubleOne)

\* line 39
boostPercentageOf(preDecimal, postDecimal) ==
    DoubleMul(DoubleDiv(DoubleSub(postDecimal, preDecimal), preDecimal), DoubleHundred)

\* the difference of the decimal odds taken relative to the boosted odds
calculateRelativeToPostBoost(preBoostOdds, postBoostOdds) ==
    IF preBoostOdds = Null \/ postBoostOdds = Null
    THEN Zero
    ELSE DoubleDiv(
             MathRound(
                 DoubleMul(
                     DoubleMul(
                         DoubleDiv(DoubleSub(americanToDecimal(postBoostOdds),
                                             americanToDecimal(preBoostOdds)),
                                   americanToDecimal(postBoostOdds)),
                         DoubleHundred),
                     DoubleHundred)),
             DoubleHundred)

\* lines 33-46.  An odds argument that is null makes americanToDecimal throw
\* (null has no replace), and the catch of lines 42-45 returns 0.
calculateActualBoostPercentage(preBoostOdds, postBoostOdds) ==
    IF preBoostOdds = Null \/ postBoostOdds = Null
    THEN Zero
    ELSE DoubleDiv(MathRound(DoubleMul(boostPercentageOf(americanToDecimal(preBoostOdds),
                                                       americanToDecimal(postBoostOdds)),
                                       DoubleHundred)),
                   DoubleHundred)

\* lines 59-75: the comparison with the threshold and the returned record
BoostCalculationOf(detectedPercentage, preBoostOdds, postBoostOdds, discrepancyThreshold, actualBoostPercentage, discrepancy) ==
    [actualBoostPercentage |-> actualBoostPercentage,
     detectedBoostPercentage |-> detectedPercentage,
     discrepancy |-> discrepancy,
     isSignificantDiscrepancy |->
         DoubleAtLeast(discrepancy, DoubleOfInt(discrepancyThreshold)),
     wasOdds |-> preBoostOdds,
     nowOdds |-> postBoostOdds]

\* line 58 and what follows it
BoostDiscrepancyOf(detectedPercentage, preBoostOdds, postBoostOdds, discrepancyThreshold, actualBoostPercentage) ==
    BoostCalculationOf(
        detectedPercentage, preBoostOdds, postBoostOdds, discrepancyThreshold,
        actualBoostPercentage,
        DoubleAbs(DoubleSub(actualBoostPercentage, DoubleOfRatio(detectedPercentage, 10))))

\* lines 51-76.  detectedPercentage is given in tenths of a percent (353 is the
\* number 35.3) and discrepancyThreshold in whole percent; the calculated
\* percentage and the discrepancy of the result are doubles.
verifyBoostAccuracy(detectedPercentage, preBoostOdds, postBoostOdds, discrepancyThreshold) ==
    BoostDiscrepancyOf(
        detectedPercentage, preBoostOdds, postBoostOdds, discrepancyThreshold,
        calculateActualBoostPercentage(preBoostOdds, postBoostOdds))

\* main.ts 294-311 and 315-326: the boostCalculation that sendNotification hands
\* to bot.sendBoostAlert.  The call of verifyBoostAccuracy is commented out.
boostCalculation(percentage, preBoostOdds, postBoostOdds) == Null

---------------------------------------------------------------------------
(* Odds parsers: text-detection/index.ts.  An OCR text is a sequence of tokens *)
(* separated by single spaces.  A token is a pair: <<"Was", 0>> and             *)
(* <<"Now", 0>> are the labels, <<">", 0>>, <<"→", 0>> and <<"»", 0>> the       *)
(* separator glyphs, and <<sign, d>> with sign "+", "-" or "" is the odds     *)
(* number written as the sign followed by the decimal digits of d (no         *)
(* leading zeros).  The parsers are modelled for texts that hold a label Was, *)
(* an odds number of 3 to 5 digits, possibly a separator, a label Now and an  *)
(* odds number of 3 to 5 digits, and for texts that hold one odds number of 3 *)
(* to 5 digits, alone or behind one label.                                     *)

Was == <<"Was", 0>>

Now == <<"Now", 0>>

Unsigned(d) == <<"", d>>

Glyph(g) == <<g, 0>>

\* matches [+\-]?\d{3,5} as a whole token
IsOdds(token) == token[1] \in {"+", "-", ""} /\ token[2] \in 100 .. 99999

\* x.startsWith('+') || x.startsWith('-') ? x : `+${x}`
WithSign(token) == IF token[1] \in {"+", "-"} THEN token ELSE <<"+", token[2]>>

\* the smallest index of a set of indices, 0 when there is none
FirstIndex(indices) ==
    IF indices = {} THEN 0 ELSE CHOOSE i \in indices : \A j \in indices : i <= j

\* detectOdds, lines 96-104: .replace(/\b(\d)6(\d{2,3})\b/g, ...) on one token;
\* a number d600 of four digits becomes d000
CleanToken(token) ==
    IF IsOdds(token) /\ token[2] \in 1000 .. 9999 /\ token[2] % 1000 = 600
    THEN <<token[1], token[2] - 600>>
    ELSE token

\* detectOdds, lines 83-117
cleanedText(text) == [i \in 1 .. Len(text) |-> CleanToken(text[i])]

\* indices of Was followed by odds, a glyph of the set, Now and odds
LabeledPairsWithSeparator(text, glyphs) ==
    { i \in 1 .. Len(text) - 4 :
        /\ text[i] = Was /\ IsOdds(text[i + 1])
        /\ text[i + 2][1] \in glyphs
        /\ text[i + 3] = Now /\ IsOdds(text[i + 4]) }

\* indices of the label followed by odds
LabeledOdds(text, label) ==
    { i \in 1 .. Len(text) - 1 : text[i] = label /\ IsOdds(text[i + 1]) }

\* detectOdds, lines 128-154: the direct strategy, as <<preBoost, postBoost>>
directOdds(text) ==
    LET directOddsMatch ==
            FirstIndex({ i \in 1 .. Len(text) : IsOdds(text[i]) /\ text[i][1] # "" })
    IN  IF directOddsMatch = 0
        THEN <<Null, Null>>
        ELSE LET preBoost == text[directOddsMatch]
                 others == { i \in 1 .. Len(text) :
                               IsOdds(text[i]) /\ WithSign(text[i]) # preBoost }
             IN  IF others = {}
                 THEN <<preBoost, Null>>
                 ELSE <<preBoost, WithSign(text[FirstIndex(others)])>>

\* detectOdds, lines 54-479, on a text that holds Was <odds> and Now <odds>, or
\* one odds number
detectOdds(text) ==
    LET textToAnalyze == cleanedText(text)
        direct == directOdds(textToAnalyze)
        wasNowSeparatorPattern ==
            FirstIndex(LabeledPairsWithSeparator(textToAnalyze, {">", "→", "»"}))
        simpleWasPattern == FirstIndex(LabeledOdds(textToAnalyze, Was))
        nowPattern == FirstIndex(LabeledOdds(textToAnalyze, Now))
    IN  IF wasNowSeparatorPattern # 0
        THEN \* lines 163-172
             << WithSign(textToAnalyze[wasNowSeparatorPattern + 1]),
                WithSign(textToAnalyze[wasNowSeparatorPattern + 4]) >>
        ELSE IF direct = <<Null, Null>> /\ simpleWasPattern # 0
        THEN \* lines 174-188; without a Now pattern and without another number
             \* preBoost stays alone to the end
             << WithSign(textToAnalyze[simpleWasPattern + 1]),
                IF nowPattern # 0 THEN WithSign(textToAnalyze[nowPattern + 1])
                                  ELSE Null >>
        ELSE IF direct[2] = Null
        THEN \* lines 395-414: postBoost = `+${match[1]}` of the Now pattern
             << direct[1],
                IF nowPattern # 0 THEN Plus(textToAnalyze[nowPattern + 1][2])
                                  ELSE Null >>
        ELSE \* every later strategy is guarded by !preBoost && !postBoost
             direct

\* detectOddsComparison, line 681: the match of /([+-]?\d{3,4})/g in an odds
\* number of 3 to 5 digits (of five digits, the first four)
IndividualOdds(token) ==
    IF token[2] > 9999 THEN <<token[1], token[2] \div 10>> ELSE token

\* detectOddsComparison, lines 656-701, on a text that holds Was <odds> and,
\* later, Now <odds>, or one odds number
detectOddsComparison(text) ==
    LET withSeparator == FirstIndex(LabeledPairsWithSeparator(text, {">", "→"}))
        wasAt == FirstIndex(LabeledOdds(text, Was))
        nowAt == FirstIndex({ i \in LabeledOdds(text, Now) : i > wasAt + 1 })
        allOdds == { i \in 1 .. Len(text) : IsOdds(text[i]) }
    IN  IF withSeparator # 0
        THEN \* lines 658-659
             << WithSign(text[withSeparator + 1]), WithSign(text[withSeparator + 4]) >>
        ELSE IF wasAt # 0 /\ nowAt # 0
        THEN \* line 661
             << WithSign(text[wasAt + 1]), WithSign(text[nowAt + 1]) >>
        ELSE IF Cardinality(allOdds) >= 2
        THEN \* lines 680-694
             << WithSign(IndividualOdds(text[FirstIndex(allOdds)])),
                WithSign(IndividualOdds(text[FirstIndex(allOdds \ {FirstIndex(allOdds)})])) >>
        ELSE \* lines 696-701
             <<Null, Null>>

---------------------------------------------------------------------------
(* Handler runs *)

Handler(pc, percentage, wasOdds, nowOdds, at) ==
    [pc |-> pc, percentage |-> percentage, wasOdds |-> wasOdds,
     nowOdds |-> nowOdds, at |-> at]

One(x) == SetToBag({x})

InFlight == BagCardinality(handlers)

Suspended(pc) == { h \in BagToSet(handlers) : h.pc = pc }

\* the handler runs that are inside their call of sendNotification (line 541):
\* before the hand-over of the alert ("notify") or in bot.sendBoostAlert ("send")
Notifying == Suspended("notify") \cup Suspended("send")

Init ==
    /\ now = 0
    /\ isCapturing = FALSE
    /\ captureBodies = 0
    /\ handlers = EmptyBag
    /\ rescanTimers = 0
    /\ lastBoostData = Null
    /\ lastUniqueBoostTime = 0
    /\ noNewBoostNotified = FALSE
    /\ consecutiveNumberFailures = 0
    /\ numberFailureNotified = FALSE
    /\ detectedPreBoostOdds = Null
    /\ detectedPostBoostOdds = Null
    /\ staleSends = 0
    /\ failureSends = 0
    /\ cycles = 0
    /\ boostAlerts = 0
    /\ staleAlerts = 0
    /\ failureAlerts = 0
    /\ oddsText = Null
    /\ oddsParsed = Null
    /\ percentageText = Null
    /\ percentageParsed = Null
    /\ calculatorInput = Null
    /\ calculatorResult = Null

---------------------------------------------------------------------------
(* Time *)

\* Time passes between callbacks.
ElapseTime(t) ==
    /\ t > now
    /\ now' = t
    /\ UNCHANGED <<handlers, capture, reconciler, detected, watches, alerts>>
    /\ UNCHANGED parser

---------------------------------------------------------------------------
(* AirConnect: airconnect/index.ts *)

\* captureScreen without the guard of lines 112-115
captureScreenWithoutGuard ==
    isCapturing' = TRUE /\ captureBodies' = captureBodies + 1

\* captureScreen, lines 111-118: the guard, then the first await
captureScreen ==
    IF isCapturing
    THEN UNCHANGED <<isCapturing, captureBodies>>
    ELSE isCapturing' = TRUE /\ captureBodies' = captureBodies + 1

\* startScreenCapture's setInterval callback, lines 106-108
IntervalTick ==
    /\ captureScreen
    /\ UNCHANGED <<now, handlers, rescanTimers, cycles, reconciler, detected,
                   watches, alerts>>
    /\ UNCHANGED parser

\* main.ts 564-566 and triggerImmediateCapture, lines 313-316
RescanTimer ==
    /\ rescanTimers > 0
    /\ rescanTimers' = rescanTimers - 1
    /\ captureScreen
    /\ UNCHANGED <<now, handlers, cycles, reconciler, detected, watches, alerts>>
    /\ UNCHANGED parser

CaptureOutcomes == {"ok", "cropTooSmall", "cropFailed", "captureThrows", "handlerThrows"}

\* The start of the handler without the early return of lines 394-398: a failed
\* crop is counted and then analysed like any other capture
HandlerStartAnalysingFailedCrop(outcome) ==
    CASE outcome = "cropFailed" ->
            /\ consecutiveNumberFailures < MaxFailureCount
            /\ consecutiveNumberFailures' = consecutiveNumberFailures + 1
            /\ handlers' = handlers (+) One(Handler("ocr", Null, Null, Null, Null))
            /\ UNCHANGED cycles
      [] outcome = "cropTooSmall" ->
            /\ consecutiveNumberFailures < MaxFailureCount
            /\ consecutiveNumberFailures' = consecutiveNumberFailures + 1
            /\ UNCHANGED <<handlers, cycles>>
      [] outcome = "ok" ->
            /\ cycles < MaxCycles
            /\ cycles' = cycles + 1
            /\ handlers' = handlers (+) One(Handler("ocr", Null, Null, Null, Null))
            /\ UNCHANGED consecutiveNumberFailures
      [] outcome = "handlerThrows" ->
            /\ UNCHANGED <<handlers, consecutiveNumberFailures, cycles>>

\* The synchronous start of the 'screenData' handler inside emit, main.ts 388-440.
HandlerStart(outcome) ==
    CASE outcome = "cropFailed" ->
            \* lines 394-398
            /\ consecutiveNumberFailures < MaxFailureCount
            /\ consecutiveNumberFailures' = consecutiveNumberFailures + 1
            /\ UNCHANGED <<handlers, cycles>>
      [] outcome = "cropTooSmall" ->
            \* lines 401-423
            /\ consecutiveNumberFailures < MaxFailureCount
            /\ consecutiveNumberFailures' = consecutiveNumberFailures + 1
            /\ UNCHANGED <<handlers, cycles>>
      [] outcome = "ok" ->
            \* lines 426-440: debug files written, suspended in detectOddsComparison
            /\ cycles < MaxCycles
            /\ cycles' = cycles + 1
            /\ handlers' = handlers (+) One(Handler("ocr", Null, Null, Null, Null))
            /\ UNCHANGED consecutiveNumberFailures
      [] outcome = "handlerThrows" ->
            \* lines 428-434 throw: the handler's promise is rejected (lines 22-25)
            /\ UNCHANGED <<handlers, consecutiveNumberFailures, cycles>>

\* captureScreen without the finally of lines 299-301
CaptureDoneHoldingGuard(outcome) ==
    /\ isCapturing
    /\ IF outcome = "captureThrows"
       THEN UNCHANGED <<handlers, consecutiveNumberFailures, cycles>>
       ELSE HandlerStart(outcome)
    /\ isCapturing' = (outcome \notin {"ok", "handlerThrows"})
    /\ captureBodies' = captureBodies - 1
    /\ UNCHANGED <<now, rescanTimers, lastBoostData, lastUniqueBoostTime,
                   noNewBoostNotified, numberFailureNotified, detected, watches,
                   alerts>>
    /\ UNCHANGED parser

\* The rest of captureScreen, lines 120-301: the screenshot and the crops are
\* awaited, screenData is emitted (or the capture throws), isCapturing is cleared.
CaptureDone(outcome) ==
    /\ isCapturing
    /\ IF outcome = "captureThrows"
       THEN UNCHANGED <<handlers, consecutiveNumberFailures, cycles>>
       ELSE HandlerStart(outcome)
    /\ isCapturing' = FALSE
    /\ captureBodies' = captureBodies - 1
    /\ UNCHANGED <<now, rescanTimers, lastBoostData, lastUniqueBoostTime,
                   noNewBoostNotified, numberFailureNotified, detected, watches,
                   alerts>>
    /\ UNCHANGED parser

---------------------------------------------------------------------------
(* The 'screenData' handler after its first await: main.ts 440-583 *)

\* Lines 440-467: detectOddsComparison has returned r; the detected odds are
\* written to the module variables and the percentage is calculated; the handler
\* is then suspended in detectSeeAllText and bot.sendOddsTest (lines 467-484).
OcrDone(h, r) ==
    /\ h \in Suspended("ocr")
    /\ detectedPreBoostOdds' = r[1]
    /\ detectedPostBoostOdds' = r[2]
    /\ handlers' = (handlers (-) One(h))
                     (+) One(Handler("analysis", CalculatePercentage(r[1], r[2]),
                                     Null, Null, Null))
    /\ UNCHANGED <<now, capture, reconciler, watches, alerts>>
    /\ UNCHANGED parser

\* Lines 512-550: the new-boost branch up to the await of sendNotification.
NewBoostBranch(h, percentage, wasOdds, nowOdds) ==
    /\ consecutiveNumberFailures' = 0
    /\ numberFailureNotified' = FALSE
    /\ lastUniqueBoostTime' = now
    /\ noNewBoostNotified' = FALSE
    /\ handlers' = (handlers (-) One(h))
                     (+) One(Handler("notify", percentage, wasOdds, nowOdds, now))
    /\ staleAlerts' = 0
    /\ failureAlerts' = 0
    /\ UNCHANGED <<lastBoostData, boostAlerts>>

\* The repeat branch clearing the stale flag as the new-boost branch does
RepeatBranchClearingStaleFlag(h) ==
    /\ consecutiveNumberFailures' = 0
    /\ numberFailureNotified' = FALSE
    /\ noNewBoostNotified' = FALSE
    /\ handlers' = handlers (-) One(h)
    /\ failureAlerts' = 0
    /\ UNCHANGED <<lastBoostData, lastUniqueBoostTime, boostAlerts, staleAlerts>>

\* The repeat branch without the reset of the failure counter
RepeatBranchKeepingFailures(h) ==
    /\ numberFailureNotified' = FALSE
    /\ handlers' = handlers (-) One(h)
    /\ failureAlerts' = 0
    /\ UNCHANGED <<lastBoostData, lastUniqueBoostTime, noNewBoostNotified,
                   consecutiveNumberFailures, boostAlerts, staleAlerts>>

\* Lines 568-575: the same boost continues.
RepeatBranch(h) ==
    /\ consecutiveNumberFailures' = 0
    /\ numberFailureNotified' = FALSE
    /\ handlers' = handlers (-) One(h)
    /\ failureAlerts' = 0
    /\ UNCHANGED <<lastBoostData, lastUniqueBoostTime, noNewBoostNotified,
                   boostAlerts, staleAlerts>>

\* The failure branch restarting the stale clock as the new-boost branch does
FailureBranchRestartingClock(h) ==
    /\ consecutiveNumberFailures < MaxFailureCount
    /\ consecutiveNumberFailures' = consecutiveNumberFailures + 1
    /\ lastUniqueBoostTime' = now
    /\ handlers' = handlers (-) One(h)
    /\ UNCHANGED <<lastBoostData, noNewBoostNotified, numberFailureNotified, alerts>>

\* Lines 576-582: no percentage.
FailureBranch(h) ==
    /\ consecutiveNumberFailures < MaxFailureCount
    /\ consecutiveNumberFailures' = consecutiveNumberFailures + 1
    /\ handlers' = handlers (-) One(h)
    /\ UNCHANGED <<lastBoostData, lastUniqueBoostTime, noNewBoostNotified,
                   numberFailureNotified, alerts>>

\* Lines 492-582: the handler resumes after bot.sendOddsTest, reads the detected
\* odds back from the module variables and reconciles.
AnalysisDone(h) ==
    /\ h \in Suspended("analysis")
    /\ IF h.percentage # Null
       THEN LET percentage == h.percentage[1]
                wasOdds == detectedPreBoostOdds
                nowOdds == detectedPostBoostOdds
            IN  IF isDifferentBoost(percentage, wasOdds, nowOdds)
                THEN NewBoostBranch(h, h.percentage, wasOdds, nowOdds)
                ELSE RepeatBranch(h)
       ELSE FailureBranch(h)
    /\ UNCHANGED <<now, capture, detected, watches>>
    /\ UNCHANGED parser

\* The end of a new-boost cycle without the assignment of line 556
NotificationDoneKeepingIdentity(h, handed) ==
    /\ h \in Suspended(IF handed THEN "send" ELSE "notify")
    /\ rescanTimers' = IF h.percentage[1] > ExtremeBoostTenths
                       THEN rescanTimers + 1
                       ELSE rescanTimers
    /\ handlers' = handlers (-) One(h)
    /\ UNCHANGED <<now, isCapturing, captureBodies, cycles, reconciler, detected,
                   watches, alerts>>
    /\ UNCHANGED parser

\* sendNotification, lines 271-326: detectSeeAllText has returned, the alert
\* files are written and the alert is handed to bot.sendBoostAlert, in which
\* sendNotification is suspended next.
NotificationHandOver(h) ==
    /\ h \in Suspended("notify")
    /\ boostAlerts' = boostAlerts + 1
    /\ handlers' = (handlers (-) One(h))
                     (+) One(Handler("send", h.percentage, h.wasOdds, h.nowOdds, h.at))
    /\ UNCHANGED <<now, capture, reconciler, detected, watches, staleAlerts,
                   failureAlerts>>
    /\ UNCHANGED parser

\* sendNotification has returned, and the handler runs its lines 552-567.
\* handed: the alert had reached bot.sendBoostAlert (which catches its own
\* failures) and the send has settled; when a step before the hand-over throws,
\* the catch of lines 377-379 ends sendNotification without it.
NotificationDone(h, handed) ==
    /\ h \in Suspended(IF handed THEN "send" ELSE "notify")
    /\ lastBoostData' = <<h.percentage[1], h.wasOdds, h.nowOdds>>
    /\ rescanTimers' = IF h.percentage[1] > ExtremeBoostTenths
                       THEN rescanTimers + 1
                       ELSE rescanTimers
    /\ handlers' = handlers (-) One(h)
    /\ UNCHANGED <<now, isCapturing, captureBodies, cycles, lastUniqueBoostTime,
                   noNewBoostNotified, consecutiveNumberFailures,
                   numberFailureNotified, detected, watches, alerts>>
    /\ UNCHANGED parser

---------------------------------------------------------------------------
(* Health watches: main.ts 132-148, 205-238 *)

\* checkNoNewBoost, lines 207-211: the condition under which a check alerts
StaleCheckAlerts ==
    LET timeSinceLastUniqueBoost == now - lastUniqueBoostTime
    IN  timeSinceLastUniqueBoost > NO_NEW_BOOST_TIMEOUT /\ ~noNewBoostNotified

\* checkNoNewBoost, lines 205-217: the check, and the hand-over of the alert
StaleWatchTick ==
    /\ staleSends < MaxWatchInFlight
    /\ IF StaleCheckAlerts
       THEN /\ staleAlerts' = staleAlerts + 1
            /\ staleSends' = staleSends + 1
       ELSE UNCHANGED <<staleAlerts, staleSends>>
    /\ UNCHANGED <<now, handlers, capture, reconciler, detected, failureSends,
                   boostAlerts, failureAlerts>>
    /\ UNCHANGED parser

\* checkNoNewBoost, lines 217-220: bot.sendSystemAlert has returned
StaleSendDone ==
    /\ staleSends > 0
    /\ staleSends' = staleSends - 1
    /\ noNewBoostNotified' = TRUE
    /\ UNCHANGED <<now, handlers, capture, lastBoostData, lastUniqueBoostTime,
                   consecutiveNumberFailures, numberFailureNotified, detected,
                   failureSends, alerts>>
    /\ UNCHANGED parser

\* checkNumberFailures, line 228: the condition under which a check alerts
FailureCheckAlerts ==
    consecutiveNumberFailures >= MAX_NUMBER_FAILURES /\ ~numberFailureNotified

\* checkNumberFailures, lines 225-233: the check, and the hand-over of the alert
FailureWatchTick ==
    /\ failureSends < MaxWatchInFlight
    /\ IF FailureCheckAlerts
       THEN /\ failureAlerts' = failureAlerts + 1
            /\ failureSends' = failureSends + 1
       ELSE UNCHANGED <<failureAlerts, failureSends>>
    /\ UNCHANGED <<now, handlers, capture, reconciler, detected, staleSends,
                   boostAlerts, staleAlerts>>
    /\ UNCHANGED parser

\* the return of the failure watch's send with the failure counter cleared
FailureSendDoneResettingCounter ==
    /\ failureSends > 0
    /\ failureSends' = failureSends - 1
    /\ numberFailureNotified' = TRUE
    /\ consecutiveNumberFailures' = 0
    /\ UNCHANGED <<now, handlers, capture, lastBoostData, lastUniqueBoostTime,
                   noNewBoostNotified, detected, staleSends, alerts>>
    /\ UNCHANGED parser

\* checkNumberFailures, lines 233-236: bot.sendSystemAlert has returned
FailureSendDone ==
    /\ failureSends > 0
    /\ failureSends' = failureSends - 1
    /\ numberFailureNotified' = TRUE
    /\ UNCHANGED <<now, handlers, capture, lastBoostData, lastUniqueBoostTime,
                   noNewBoostNotified, consecutiveNumberFailures, detected,
                   staleSends, alerts>>
    /\ UNCHANGED parser

---------------------------------------------------------------------------
(* The notifier: discord-bot/index.ts *)

\* What happens to a message in the Discord client: it is delivered, or the
\* channel fetch or the send throws.
SendOutcomes == {"sent", "failed"}

\* sendSystemAlert with the failure of the send passed on to its caller
sendSystemAlertRethrowing(outcome) ==
    IF outcome = "failed" THEN "rejected" ELSE "resolved"

\* sendSystemAlert, lines 77-88: how its promise settles.  A throw of the fetch
\* or of the send is caught and logged at lines 85-87.
sendSystemAlert(outcome) ==
    IF outcome = "failed" THEN "resolved" ELSE "resolved"

\* sendBoostAlert, lines 125-176: the same, with the catch of lines 173-175
sendBoostAlert(outcome) ==
    IF outcome = "failed" THEN "resolved" ELSE "resolved"

\* main.ts sendNotification, lines 241-380: how its promise settles.  The whole
\* body is in a try of which the catch (377-379) logs.
sendNotification(handed, outcome) ==
    IF handed /\ sendBoostAlert(outcome) = "rejected" THEN "resolved" ELSE "resolved"

\* The await of line 541 throws: the rest of the handler, line 556 included, is
\* skipped.
NotificationRejected(h) ==
    /\ h \in Suspended("notify") \cup Suspended("send")
    /\ handlers' = handlers (-) One(h)
    /\ UNCHANGED <<now, capture, reconciler, detected, watches, alerts>>
    /\ UNCHANGED parser

\* The handler's await of sendNotification (line 541) settles.
NotificationSettled(h, handed, outcome) ==
    IF sendNotification(handed, outcome) = "resolved"
    THEN NotificationDone(h, handed)
    ELSE h.pc = (IF handed THEN "send" ELSE "notify") /\ NotificationRejected(h)

\* The await of line 217 throws: line 219 is skipped.
StaleSendRejected ==
    /\ staleSends > 0
    /\ staleSends' = staleSends - 1
    /\ UNCHANGED <<now, handlers, capture, reconciler, detected, failureSends,
                   alerts>>
    /\ UNCHANGED parser

\* checkNoNewBoost's await of bot.sendSystemAlert (line 217) settles.
StaleSendSettled(outcome) ==
    IF sendSystemAlert(outcome) = "resolved"
    THEN StaleSendDone
    ELSE StaleSendRejected

\* The await of line 233 throws: line 235 is skipped.
FailureSendRejected ==
    /\ failureSends > 0
    /\ failureSends' = failureSends - 1
    /\ UNCHANGED <<now, handlers, capture, reconciler, detected, staleSends,
                   alerts>>
    /\ UNCHANGED parser

\* checkNumberFailures' await of bot.sendSystemAlert (line 233) settles.
FailureSendSettled(outcome) ==
    IF sendSystemAlert(outcome) = "resolved"
    THEN FailureSendDone
    ELSE FailureSendRejected

---------------------------------------------------------------------------

Next ==
    \/ \E t \in Instants : ElapseTime(t)
    \/ IntervalTick
    \/ RescanTimer
    \/ \E outcome \in CaptureOutcomes : CaptureDone(outcome)
    \/ \E h \in BagToSet(handlers), r \in OcrResults : OcrDone(h, r)
    \/ \E h \in BagToSet(handlers) : AnalysisDone(h)
    \/ \E h \in BagToSet(handlers) : NotificationHandOver(h)
    \/ \E h \in BagToSet(handlers), handed \in BOOLEAN : NotificationDone(h, handed)
    \/ StaleWatchTick
    \/ StaleSendDone
    \/ FailureWatchTick
    \/ FailureSendDone

Spec == Init /\ [][Next]_vars

\* The capture loop and the handler, without the watches and the clock
NextCaptureLoop ==
    \/ IntervalTick
    \/ RescanTimer
    \/ \E outcome \in CaptureOutcomes : CaptureDone(outcome)
    \/ \E h \in BagToSet(handlers), r \in OcrResults : OcrDone(h, r)
    \/ \E h \in BagToSet(handlers) : AnalysisDone(h)
    \/ \E h \in BagToSet(handlers) : NotificationHandOver(h)
    \/ \E h \in BagToSet(handlers), handed \in BOOLEAN : NotificationDone(h, handed)

\* The capture loop under its scheduling: setInterval keeps calling captureScreen
\* every 7.5 s (airconnect/index.ts 106-108), and a capture that has started comes
\* to its end, by an emit, a return or a throw (lines 120-301).
SpecFair ==
    /\ Init /\ [][NextCaptureLoop]_vars
    /\ WF_vars(IntervalTick)
    /\ WF_vars(\E outcome \in CaptureOutcomes : CaptureDone(outcome))

---------------------------------------------------------------------------
(* The program in front of a screen that keeps showing one boost *)

UnchangedBoost == <<Plus(100), Plus(150)>>

\* Next with every detectOddsComparison returning the odds of that boost
NextUnchangedScreen ==
    \/ \E t \in Instants : ElapseTime(t)
    \/ IntervalTick
    \/ RescanTimer
    \/ \E outcome \in CaptureOutcomes : CaptureDone(outcome)
    \/ \E h \in BagToSet(handlers) : OcrDone(h, UnchangedBoost)
    \/ \E h \in BagToSet(handlers) : AnalysisDone(h)
    \/ \E h \in BagToSet(handlers) : NotificationHandOver(h)
    \/ \E h \in BagToSet(handlers), handed \in BOOLEAN : NotificationDone(h, handed)
    \/ StaleWatchTick
    \/ StaleSendDone
    \/ FailureWatchTick
    \/ FailureSendDone

SpecUnchangedScreen == Init /\ [][NextUnchangedScreen]_vars

---------------------------------------------------------------------------
(* The program in front of a screen that keeps showing one boost, which the  *)
(* OCR reads or fails to read                                                *)

UnsteadyOcrResults == { <<Null, Null>>, UnchangedBoost }

NextUnsteadyReading ==
    \/ \E t \in Instants : ElapseTime(t)
    \/ IntervalTick
    \/ RescanTimer
    \/ \E outcome \in CaptureOutcomes : CaptureDone(outcome)
    \/ \E h \in BagToSet(handlers), r \in UnsteadyOcrResults : OcrDone(h, r)
    \/ \E h \in BagToSet(handlers) : AnalysisDone(h)
    \/ \E h \in BagToSet(handlers) : NotificationHandOver(h)
    \/ \E h \in BagToSet(handlers), handed \in BOOLEAN : NotificationDone(h, handed)
    \/ StaleWatchTick
    \/ StaleSendDone
    \/ FailureWatchTick
    \/ FailureSendDone

SpecUnsteadyReading == Init /\ [][NextUnsteadyReading]_vars

---------------------------------------------------------------------------
(* The program in front of a screen that keeps showing one boost, with the   *)
(* outcome of every send in the Discord client drawn                         *)

NextNotifier ==
    \/ \E t \in Instants : ElapseTime(t)
    \/ IntervalTick
    \/ RescanTimer
    \/ \E outcome \in CaptureOutcomes : CaptureDone(outcome)
    \/ \E h \in BagToSet(handlers) : OcrDone(h, UnchangedBoost)
    \/ \E h \in BagToSet(handlers) : AnalysisDone(h)
    \/ \E h \in BagToSet(handlers) : NotificationHandOver(h)
    \/ \E h \in BagToSet(handlers), handed \in BOOLEAN, outcome \in SendOutcomes :
           NotificationSettled(h, handed, outcome)
    \/ StaleWatchTick
    \/ \E outcome \in SendOutcomes : StaleSendSettled(outcome)
    \/ FailureWatchTick
    \/ \E outcome \in SendOutcomes : FailureSendSettled(outcome)

SpecNotifier == Init /\ [][NextNotifier]_vars

---------------------------------------------------------------------------
(* The capture cycles over odds of any size *)

\* Odds pairs that detectOddsComparison returns for the texts "Was +100 > Now
\* +150", "Was +100 > Now +1100", "Was +100 > Now +2000", "Was +500 > Now +500",
\* "Was +1200 > Now +900", "Was -200 > Now +100" and "Was +1000 > Now +1004"
WideOddsPairs ==
    { <<Plus(100), Plus(150)>>, <<Plus(100), Plus(1100)>>, <<Plus(100), Plus(2000)>>,
      <<Plus(500), Plus(500)>>, <<Plus(1200), Plus(900)>>, <<Minus(200), Plus(100)>>,
      <<Plus(1000), Plus(1004)>> }

WideOcrResults == { <<Null, Null>> } \cup WideOddsPairs

\* The capture loop and the handler over these OCR results, without the watches
\* and the clock
NextWideOdds ==
    \/ IntervalTick
    \/ RescanTimer
    \/ \E outcome \in CaptureOutcomes : CaptureDone(outcome)
    \/ \E h \in BagToSet(handlers), r \in WideOcrResults : OcrDone(h, r)
    \/ \E h \in BagToSet(handlers) : AnalysisDone(h)
    \/ \E h \in BagToSet(handlers) : NotificationHandOver(h)
    \/ \E h \in BagToSet(handlers), handed \in BOOLEAN : NotificationDone(h, handed)

SpecWideOdds == Init /\ [][NextWideOdds]_vars

---------------------------------------------------------------------------
(* The percentage parser *)

\* The OCR text of a boost crop is a sequence of words separated by single
\* spaces. A word is <<kind, value>>: the number 21 is <<"", 21>>, the number
\* with a percent sign "21%" is <<"%", 21>>, and the words "Boost" and "apples"
\* (a word that no pattern of the parser knows) have value 0.
Percent(d) == <<"%", d>>

Boost == <<"Boost", 0>>

OtherWord == <<"apples", 0>>

IsNumberWord(word) == word[1] \in {"%", ""}

\* nextWordLower.includes('boost'), for the word after position index ('' when
\* there is none)
isBoostWord(words, index) == index < Len(words) /\ words[index + 1] = Boost

\* words.indexOf(word): the first position that holds an equal word
indexOf(words, word) == FirstIndex({ i \in 1 .. Len(words) : words[i] = word })

\* The loop over the words: a number from 5 to 1000 is pushed when the word after
\* words.indexOf(word) is a boost word or the word holds a percent sign.
wordScan(words) ==
    { words[i][2] : i \in { j \in 1 .. Len(words) :
        /\ IsNumberWord(words[j])
        /\ words[j][2] >= 5
        /\ words[j][2] <= 1000
        /\ \/ isBoostWord(words, indexOf(words, words[j]))
           \/ words[j][1] = "%" } }

\* What the regular expressions capture in the digits of the number word at
\* position i:
\*   (\d+)%\s*Boost and its variants: "n% Boost" gives n;
\*   (\d{1,3})\s*%: "n%" gives the last three digits of n;
\*   Boost\s*(\d+)% and [Bb][Oo0][Oo0][Ss][Tt]\s*(\d+): "Boost n" gives n;
\*   (\d+)\s*[%oO0]\s*[Bb][Oo0][Oo0][Ss][Tt], which takes a digit 0 for the
\*   percent sign: "n Boost" with n of two or more digits ending in the digit 0
\*   gives n without that digit, and "n 0 Boost" gives n.  The word "0" before
\*   Boost holds no digit for (\d+) itself.
patternCaptures(words, i) ==
    LET word == words[i]
        n == word[2]
        beforeBoost == isBoostWord(words, i)
        afterBoost == i > 1 /\ words[i - 1] = Boost
        beforeZeroBoost == i < Len(words) /\ words[i + 1] = <<"", 0>>
                               /\ isBoostWord(words, i + 1)
    IN  (IF word[1] = "%" /\ beforeBoost THEN {n} ELSE {})
        \cup (IF word[1] = "%" THEN {n % 1000} ELSE {})
        \cup (IF afterBoost THEN {n} ELSE {})
        \cup (IF word[1] = "" /\ beforeBoost /\ n >= 10 /\ n % 10 = 0
              THEN {n \div 10} ELSE {})
        \cup (IF word[1] = "" /\ beforeZeroBoost THEN {n} ELSE {})

\* The loop over the patterns: a captured number from 1 to 1000 is pushed.
patternScan(words) ==
    { c \in UNION { patternCaptures(words, i) :
                     i \in { j \in 1 .. Len(words) : IsNumberWord(words[j]) } } :
        c >= 1 /\ c <= 1000 }

minPercentage(foundPercentages) ==
    CHOOSE m \in foundPercentages : \A c \in foundPercentages : m <= c

\* Math.max(...uniquePercentages)
maxPercentage(foundPercentages) ==
    CHOOSE m \in foundPercentages : \A c \in foundPercentages : c <= m

\* the returned number n is <<n>>, null is <<>>
parsePercentageFromText(text) ==
    LET foundPercentages == wordScan(text) \cup patternScan(text)
    IN  IF foundPercentages # {} THEN << maxPercentage(foundPercentages) >> ELSE Null

MaxWords == 3

PercentageDigits == {0, 3, 5, 21, 50, 1021}

PercentageWords ==
    {Boost, OtherWord}
        \cup { Percent(d) : d \in PercentageDigits }
        \cup { Unsigned(d) : d \in PercentageDigits }

PercentageTexts == UNION { [1 .. n -> PercentageWords] : n \in 1 .. MaxWords }

InitPercentage ==
    /\ now = 0
    /\ isCapturing = FALSE
    /\ captureBodies = 0
    /\ handlers = EmptyBag
    /\ rescanTimers = 0
    /\ lastBoostData = Null
    /\ lastUniqueBoostTime = 0
    /\ noNewBoostNotified = FALSE
    /\ consecutiveNumberFailures = 0
    /\ numberFailureNotified = FALSE
    /\ detectedPreBoostOdds = Null
    /\ detectedPostBoostOdds = Null
    /\ staleSends = 0
    /\ failureSends = 0
    /\ cycles = 0
    /\ boostAlerts = 0
    /\ staleAlerts = 0
    /\ failureAlerts = 0
    /\ oddsText = Null
    /\ oddsParsed = Null
    /\ percentageText \in PercentageTexts
    /\ percentageParsed = Null
    /\ calculatorInput = Null
    /\ calculatorResult = Null

\* parsePercentageFromText is called on the text and returns; found is what its
\* loop over the words has pushed, matched what its loop over the patterns has.
ParsePercentageFromText ==
    /\ percentageParsed = Null
    /\ percentageParsed' = [ found |-> wordScan(percentageText),
                             matched |-> patternScan(percentageText),
                             percentage |-> parsePercentageFromText(percentageText) ]
    /\ UNCHANGED <<now, handlers, capture, reconciler, detected, watches, alerts,
                   oddsText, oddsParsed, percentageText, calculator>>

NextPercentage == ParsePercentageFromText

SpecPercentage == InitPercentage /\ [][NextPercentage]_vars

---------------------------------------------------------------------------
(* The BoostCalculator on arbitrary arguments *)

\* Odds arguments: strings of a sign and digits, and null.  The exact percentage
\* is 3.125 for "+124" with "+131", -21.875 for "+108" with "-160" and 20.3 for
\* "+900" with "+1103".
CalculatorOdds ==
    { Null, Plus(100), Plus(108), Plus(124), Plus(131), Plus(150), Plus(900),
      Plus(1103), Minus(160), Minus(200), Unsigned(150) }

\* detected percentages, in tenths of a percent
DetectedPercentages == { 150, 251, 353 }

\* the fourth argument of verifyBoostAccuracy, in percent; null when it is left out
DiscrepancyThresholds == { Null, <<15>> }

\* discrepancyThreshold: number = 10
DefaultDiscrepancyThreshold == 10

InitCalculator ==
    /\ now = 0
    /\ isCapturing = FALSE
    /\ captureBodies = 0
    /\ handlers = EmptyBag
    /\ rescanTimers = 0
    /\ lastBoostData = Null
    /\ lastUniqueBoostTime = 0
    /\ noNewBoostNotified = FALSE
    /\ consecutiveNumberFailures = 0
    /\ numberFailureNotified = FALSE
    /\ detectedPreBoostOdds = Null
    /\ detectedPostBoostOdds = Null
    /\ staleSends = 0
    /\ failureSends = 0
    /\ cycles = 0
    /\ boostAlerts = 0
    /\ staleAlerts = 0
    /\ failureAlerts = 0
    /\ oddsText = Null
    /\ oddsParsed = Null
    /\ percentageText = Null
    /\ percentageParsed = Null
    /\ calculatorInput \in [ detectedPercentage : DetectedPercentages,
                              preBoostOdds : CalculatorOdds,
                              postBoostOdds : CalculatorOdds,
                              discrepancyThreshold : DiscrepancyThresholds ]
    /\ calculatorResult = Null

\* americanToDecimal is called on each of the two odds arguments and returns,
\* or throws on null (americanOdds.replace, line 18).
AmericanToDecimal ==
    /\ calculatorResult = Null
    /\ calculatorResult' =
          IF calculatorInput.preBoostOdds = Null \/ calculatorInput.postBoostOdds = Null
          THEN [ by |-> "americanToDecimal threw" ]
          ELSE [ by |-> "americanToDecimal",
                 preDecimal |-> americanToDecimal(calculatorInput.preBoostOdds),
                 postDecimal |-> americanToDecimal(calculatorInput.postBoostOdds) ]
    /\ UNCHANGED <<now, handlers, capture, reconciler, detected, watches, alerts,
                   oddsText, oddsParsed, percentageParser, calculatorInput>>

\* verifyBoostAccuracy is called on the arguments and returns.
VerifyBoostAccuracy ==
    /\ calculatorResult = Null
    /\ calculatorResult' =
          [ by |-> "verifyBoostAccuracy",
            calculation |->
                verifyBoostAccuracy(
                    calculatorInput.detectedPercentage,
                    calculatorInput.preBoostOdds,
                    calculatorInput.postBoostOdds,
                    IF calculatorInput.discrepancyThreshold = Null
                    THEN DefaultDiscrepancyThreshold
                    ELSE calculatorInput.discrepancyThreshold[1]) ]
    /\ UNCHANGED <<now, handlers, capture, reconciler, detected, watches, alerts,
                   oddsText, oddsParsed, percentageParser, calculatorInput>>

NextCalculator ==
    \/ AmericanToDecimal
    \/ VerifyBoostAccuracy

SpecCalculator == InitCalculator /\ [][NextCalculator]_vars

---------------------------------------------------------------------------
(* The capture cycles over odds that read as zero *)

\* Odds pairs that detectOddsComparison returns for the texts "Was +100 > Now
\* +150", "Was +0 > Now +150" and "Was +100 > Now +0" (its patterns take \d+)
ZeroOddsPairs ==
    { <<Plus(100), Plus(150)>>, <<Plus(0), Plus(150)>>, <<Plus(100), Plus(0)>> }

ZeroOcrResults == { <<Null, Null>> } \cup ZeroOddsPairs

\* The capture loop and the handler over these OCR results, without the watches
\* and the clock
NextZeroOdds ==
    \/ IntervalTick
    \/ RescanTimer
    \/ \E outcome \in CaptureOutcomes : CaptureDone(outcome)
    \/ \E h \in BagToSet(handlers), r \in ZeroOcrResults : OcrDone(h, r)
    \/ \E h \in BagToSet(handlers) : AnalysisDone(h)
    \/ \E h \in BagToSet(handlers) : NotificationHandOver(h)
    \/ \E h \in BagToSet(handlers), handed \in BOOLEAN : NotificationDone(h, handed)

SpecZeroOdds == Init /\ [][NextZeroOdds]_vars

---------------------------------------------------------------------------
(* The reconciliation of one handler run on arbitrary inputs *)

DiffPercentages == { 250, 500 }

NullableOdds == { Null, Plus(100), Plus(150), Minus(110) }

\* none, or any triple of a percentage and two nullable odds strings
Identities == { Null } \cup (DiffPercentages \X NullableOdds \X NullableOdds)

\* One handler run is about to reconcile (main.ts 492); the identity held, the
\* detected odds and the run's percentage are drawn from the sets above.
InitDiff ==
    /\ now = 0
    /\ isCapturing = FALSE
    /\ captureBodies = 0
    /\ \E p \in { Null } \cup { <<q>> : q \in DiffPercentages } :
           handlers = One(Handler("analysis", p, Null, Null, Null))
    /\ rescanTimers = 0
    /\ lastBoostData \in Identities
    /\ lastUniqueBoostTime = 0
    /\ noNewBoostNotified = FALSE
    /\ consecutiveNumberFailures = 0
    /\ numberFailureNotified = FALSE
    /\ detectedPreBoostOdds \in NullableOdds
    /\ detectedPostBoostOdds \in NullableOdds
    /\ staleSends = 0
    /\ failureSends = 0
    /\ cycles = 1
    /\ boostAlerts = 0
    /\ staleAlerts = 0
    /\ failureAlerts = 0
    /\ oddsText = Null
    /\ oddsParsed = Null
    /\ percentageText = Null
    /\ percentageParsed = Null
    /\ calculatorInput = Null
    /\ calculatorResult = Null

NextDiff == \E h \in BagToSet(handlers) : AnalysisDone(h)

SpecDiff == InitDiff /\ [][NextDiff]_vars

---------------------------------------------------------------------------
(* An odds parser called on the OCR text of an odds crop *)

\* digits of the odds numbers in the texts
OddsDigits == { 900, 950, 1129, 1200, 1600, 2600 }

OddsTokens == { <<sign, d>> : sign \in {"+", "-", ""}, d \in OddsDigits }

\* no token, or one of the separator glyphs
Separators == { <<>> } \cup { <<Glyph(g)>> : g \in {">", "→", "»"} }

\* "Was <a> Now <b>" and "Was <a> <separator> Now <b>"
OddsTexts ==
    { <<Was, a>> \o separator \o <<Now, b>> :
        a \in OddsTokens, separator \in Separators, b \in OddsTokens }

InitOdds ==
    /\ now = 0
    /\ isCapturing = FALSE
    /\ captureBodies = 0
    /\ handlers = EmptyBag
    /\ rescanTimers = 0
    /\ lastBoostData = Null
    /\ lastUniqueBoostTime = 0
    /\ noNewBoostNotified = FALSE
    /\ consecutiveNumberFailures = 0
    /\ numberFailureNotified = FALSE
    /\ detectedPreBoostOdds = Null
    /\ detectedPostBoostOdds = Null
    /\ staleSends = 0
    /\ failureSends = 0
    /\ cycles = 0
    /\ boostAlerts = 0
    /\ staleAlerts = 0
    /\ failureAlerts = 0
    /\ oddsText \in OddsTexts
    /\ oddsParsed = Null
    /\ percentageText = Null
    /\ percentageParsed = Null
    /\ calculatorInput = Null
    /\ calculatorResult = Null

\* detectOdds is called on the text and returns.
DetectOdds ==
    /\ oddsParsed = Null
    /\ oddsParsed' = [by |-> "detectOdds", pair |-> detectOdds(oddsText)]
    /\ UNCHANGED <<now, handlers, capture, reconciler, detected, watches, alerts,
                   oddsText, percentageParser, calculator>>

\* detectOddsComparison is called on the text and returns.
DetectOddsComparison ==
    /\ oddsParsed = Null
    /\ oddsParsed' = [by |-> "detectOddsComparison",
                      pair |-> detectOddsComparison(oddsText)]
    /\ UNCHANGED <<now, handlers, capture, reconciler, detected, watches, alerts,
                   oddsText, percentageParser, calculator>>

NextOdds ==
    \/ DetectOdds
    \/ DetectOddsComparison

SpecOdds == InitOdds /\ [][NextOdds]_vars

---------------------------------------------------------------------------
(* An odds parser called on a text that holds one odds number *)

SingleOddsTokens ==
    { <<sign, d>> : sign \in {"+", "-", ""}, d \in OddsDigits \cup {12345} }

\* "<a>", "Was <a>" and "Now <a>"
SingleOddsTexts ==
    { label \o <<a>> : label \in { <<>>, <<Was>>, <<Now>> }, a \in SingleOddsTokens }

InitSingleOdds ==
    /\ now = 0
    /\ isCapturing = FALSE
    /\ captureBodies = 0
    /\ handlers = EmptyBag
    /\ rescanTimers = 0
    /\ lastBoostData = Null
    /\ lastUniqueBoostTime = 0
    /\ noNewBoostNotified = FALSE
    /\ consecutiveNumberFailures = 0
    /\ numberFailureNotified = FALSE
    /\ detectedPreBoostOdds = Null
    /\ detectedPostBoostOdds = Null
    /\ staleSends = 0
    /\ failureSends = 0
    /\ cycles = 0
    /\ boostAlerts = 0
    /\ staleAlerts = 0
    /\ failureAlerts = 0
    /\ oddsText \in SingleOddsTexts
    /\ oddsParsed = Null
    /\ percentageText = Null
    /\ percentageParsed = Null
    /\ calculatorInput = Null
    /\ calculatorResult = Null

SpecSingleOdds == InitSingleOdds /\ [][NextOdds]_vars

---------------------------------------------------------------------------
(* Properties *)

\* The held identity is the triple (percentage, wasOdds, nowOdds), field by field.
SameAsIdentity(percentage, wasOdds, nowOdds) ==
    /\ lastBoostData # Null
    /\ lastBoostData[1] = percentage
    /\ lastBoostData[2] = wasOdds
    /\ lastBoostData[3] = nowOdds

\* The handler run h reconciles a percentage against the triple it builds.
ObservesSame(h) ==
    SameAsIdentity(h.percentage[1], detectedPreBoostOdds, detectedPostBoostOdds)

\* A step in which a handler run takes the new-boost transition
NewBoostStep ==
    \E h \in Suspended("analysis") :
        h.percentage # Null /\ ~ObservesSame(h) /\ AnalysisDone(h)

\* A step in which a handler run reconciles a percentage it parsed
ParsedStep ==
    \E h \in Suspended("analysis") : h.percentage # Null /\ AnalysisDone(h)

\* C1: isDifferentBoost(percentage, wasOdds, nowOdds) is true exactly when no
\* identity is held or one of the three fields differs from the held identity
\* (null equal to null), and false exactly when an identity is held and the three
\* fields are equal: a reconciling handler run goes on to sendNotification in the
\* first case and ends in the second.
C1_IsDifferentBoostExact ==
    [][\A h \in Suspended("analysis") :
          (h.percentage # Null /\ AnalysisDone(h)) =>
              /\ isDifferentBoost(h.percentage[1], detectedPreBoostOdds,
                                  detectedPostBoostOdds) <=> ~ObservesSame(h)
              /\ (InFlight' = InFlight) <=> ~ObservesSame(h)
              /\ (InFlight' = InFlight - 1) <=> ObservesSame(h)]_vars

\* C1: a run whose null wasOdds met an identity with a null wasOdds, the other
\* two fields equal too, has ended as a repeat.
C1_NullEqualsNullRepeat ==
    /\ handlers = EmptyBag
    /\ consecutiveNumberFailures = 0
    /\ lastBoostData # Null
    /\ lastBoostData[2] = Null
    /\ lastBoostData[3] # Null
    /\ detectedPreBoostOdds = Null
    /\ detectedPostBoostOdds = lastBoostData[3]

\* C2: a handler run that took the new-boost transition ends (it returns from
\* sendNotification) with the identity equal to its triple, the failure counter at
\* 0, the failure flag false, lastUniqueBoostTime equal to the time of its
\* transition, the stale flag false, and exactly one boost alert handed to the bot.
C2_NewBoostCycleEnd ==
    [][\A h \in Notifying : \A handed \in BOOLEAN :
          NotificationDone(h, handed) =>
              /\ lastBoostData' = <<h.percentage[1], h.wasOdds, h.nowOdds>>
              /\ consecutiveNumberFailures' = 0
              /\ numberFailureNotified' = FALSE
              /\ lastUniqueBoostTime' = h.at
              /\ noNewBoostNotified' = FALSE
              /\ h.pc = "send"]_vars

\* C3: while every OCR reads the same boost from the screen, at most one boost
\* alert is handed to the bot, whatever the interleaving of the callbacks.
C3_OneAlertForUnchangedBoost == boostAlerts <= 1

\* C4: at most one capture-and-analyze cycle is in flight: no capture runs while a
\* handler run is suspended, and no two handler runs are suspended together.
C4_OneCycleInFlight == InFlight + (IF isCapturing THEN 1 ELSE 0) <= 1

\* C5: since the last successful parse, at most one failure alert is emitted, none
\* while the counter is below MAX_NUMBER_FAILURES, and while the counter is at or
\* above it with no alert emitted yet, a failure-watch check emits the alert.
C5_ExactlyOneFailureAlert ==
    /\ failureAlerts <= 1
    /\ failureAlerts > 0 => consecutiveNumberFailures >= MAX_NUMBER_FAILURES
    /\ (consecutiveNumberFailures >= MAX_NUMBER_FAILURES /\ failureAlerts = 0)
          => FailureCheckAlerts

\* C6: with T the time of the last new-boost transition, at most one stale alert is
\* emitted since T, none before T + NO_NEW_BOOST_TIMEOUT, and at or after
\* T + NO_NEW_BOOST_TIMEOUT, with no alert emitted yet, a stale-watch check emits
\* the alert.
C6_StaleAlertFromTimeout ==
    /\ staleAlerts <= 1
    /\ now - lastUniqueBoostTime < NO_NEW_BOOST_TIMEOUT => staleAlerts = 0
    /\ (now - lastUniqueBoostTime >= NO_NEW_BOOST_TIMEOUT /\ staleAlerts = 0)
          => StaleCheckAlerts

\* C7: when no callback is suspended and no stale alert was emitted since the
\* last new-boost transition, the stale flag is false; so a new-boost transition
\* that happens while a stale-watch check is suspended in its send leaves the flag
\* false once both have finished.
C7_TransitionDuringSendKeepsFlagClear ==
    (staleSends = 0 /\ InFlight = 0 /\ staleAlerts = 0) => ~noNewBoostNotified

\* C8: the stale flag goes from true to false only in a new-boost transition, and
\* the failure flag only in a step of a handler run that parsed a percentage.
C8_FlagsClearOnlyByOwnCondition ==
    [][/\ (noNewBoostNotified /\ ~noNewBoostNotified') => NewBoostStep
       /\ (numberFailureNotified /\ ~numberFailureNotified') => ParsedStep]_vars

\* C8: both flags are set and a handler run is about to take the new-boost
\* transition.
C8_BothFlagsSetBeforeNewBoost ==
    /\ noNewBoostNotified
    /\ numberFailureNotified
    /\ \E h \in Suspended("analysis") : h.percentage # Null /\ ~ObservesSame(h)

\* C9: a handler run whose triple equals the held identity resets the failure
\* counter to 0 and the failure flag to false, hands over no boost alert and ends,
\* and leaves the identity, lastUniqueBoostTime and the stale flag unchanged.
C9_RepeatCycle ==
    [][\A h \in Suspended("analysis") :
          (h.percentage # Null /\ ObservesSame(h) /\ AnalysisDone(h)) =>
              /\ consecutiveNumberFailures' = 0
              /\ numberFailureNotified' = FALSE
              /\ boostAlerts' = boostAlerts
              /\ InFlight' = InFlight - 1
              /\ UNCHANGED <<lastBoostData, lastUniqueBoostTime,
                             noNewBoostNotified>>]_vars

\* C9: a handler run is about to reconcile the held identity again, with failures
\* counted and both flags set.
C9_RepeatWithFailuresAndFlags ==
    /\ consecutiveNumberFailures > 0
    /\ numberFailureNotified
    /\ noNewBoostNotified
    /\ \E h \in Suspended("analysis") : h.percentage # Null /\ ObservesSame(h)

\* C10: a handler run that extracted no percentage increments the failure counter
\* by exactly one, hands over no boost alert and ends, and leaves
\* lastUniqueBoostTime, the identity and both flags unchanged.
C10_ParseFailureCycle ==
    [][\A h \in Suspended("analysis") :
          (h.percentage = Null /\ AnalysisDone(h)) =>
              /\ consecutiveNumberFailures' = consecutiveNumberFailures + 1
              /\ boostAlerts' = boostAlerts
              /\ InFlight' = InFlight - 1
              /\ UNCHANGED <<lastBoostData, lastUniqueBoostTime,
                             noNewBoostNotified, numberFailureNotified>>]_vars

\* C10: a handler run without a percentage is about to count its failure, with an
\* identity held, failures already counted and the stale flag set.
C10_FailureWithIdentityAndFlag ==
    /\ lastBoostData # Null
    /\ noNewBoostNotified
    /\ consecutiveNumberFailures > 0
    /\ consecutiveNumberFailures < MaxFailureCount
    /\ \E h \in Suspended("analysis") : h.percentage = Null

\* C11: isDifferentBoost is false on the triple that a completed new-boost cycle
\* has just made the identity, and a handler run that then reconciles a triple
\* equal to the held identity ends as a repeat: it hands over no boost alert and
\* leaves the identity alone.
C11_ReflexiveAfterNewBoost ==
    [][/\ \A h \in Notifying : \A handed \in BOOLEAN :
            NotificationDone(h, handed) =>
                ~DiffersFrom(lastBoostData', h.percentage[1], h.wasOdds, h.nowOdds)
       /\ \A h \in Suspended("analysis") :
            (h.percentage # Null /\ ObservesSame(h) /\ AnalysisDone(h)) =>
                /\ ~isDifferentBoost(h.percentage[1], detectedPreBoostOdds,
                                     detectedPostBoostOdds)
                /\ Notifying' = Notifying
                /\ UNCHANGED <<lastBoostData, boostAlerts>>]_vars

\* C11: one new-boost cycle has completed and handed over its alert, and the
\* following handler run is about to reconcile the same triple.
C11_SameTripleAfterCompletedCycle ==
    /\ boostAlerts = 1
    /\ cycles = 2
    /\ InFlight = 1
    /\ \E h \in Suspended("analysis") : h.percentage # Null /\ ObservesSame(h)

\* C12: a cycle in which a step throws (the capture before the emit, or the
\* handler before its first await) is counted like a parse miss: the failure
\* counter is incremented by one.
C12_ExceptionCountsAsFailure ==
    [][\A outcome \in {"captureThrows", "handlerThrows"} :
          CaptureDone(outcome) =>
              consecutiveNumberFailures' = consecutiveNumberFailures + 1]_vars

\* C13: no failure of a cycle stops the capture loop: every end of a capture,
\* whatever its outcome (a throw, a crop failure, a handler started that may miss
\* its parse), releases the capture guard, and under fair ticking a capture is
\* started again and again, for ever.
C13_FailuresDoNotStopLoop ==
    /\ [][\A outcome \in CaptureOutcomes :
            CaptureDone(outcome) => ~isCapturing']_vars
    /\ []<>isCapturing
    /\ []<>~isCapturing

\* C13: after failures have been counted and a handler run has missed its parse,
\* the next capture is in progress.
C13_CapturingAgainAfterFailures ==
    /\ isCapturing
    /\ consecutiveNumberFailures >= 2
    /\ cycles >= 1
    /\ InFlight = 0
    /\ lastBoostData = Null

\* C14: a capture that signals invalid crops increments the failure counter by
\* exactly one and ends the cycle there: no handler run is left suspended for OCR
\* or parsing, no boost alert is handed over, and the identity,
\* lastUniqueBoostTime, both flags and the detected odds are unchanged.
C14_CropFailedCycle ==
    [][CaptureDone("cropFailed") =>
          /\ consecutiveNumberFailures' = consecutiveNumberFailures + 1
          /\ handlers' = handlers
          /\ boostAlerts' = boostAlerts
          /\ UNCHANGED <<lastBoostData, lastUniqueBoostTime, noNewBoostNotified,
                         numberFailureNotified, detected>>]_vars

\* C14: a capture is in progress, and can end in a crop failure, with an identity
\* held, the stale flag set and no handler run suspended.
C14_CaptureWithIdentityAndStaleFlag ==
    /\ isCapturing
    /\ consecutiveNumberFailures < MaxFailureCount
    /\ lastBoostData # Null
    /\ noNewBoostNotified
    /\ InFlight = 0

\* C15: the reconciler's state after the end of a new-boost cycle, and after the
\* end of a health-watch check that alerted, does not depend on whether the
\* notifier's send was delivered or failed: it is the identity of the cycle (and
\* nothing else changed), respectively the watch's flag set (and nothing else
\* changed), for both outcomes of the send.
C15_SendOutcomeNeverReachesState ==
    [][/\ \A h \in Notifying :
            \A handed \in BOOLEAN, outcome \in SendOutcomes :
                NotificationSettled(h, handed, outcome) =>
                    /\ lastBoostData' = <<h.percentage[1], h.wasOdds, h.nowOdds>>
                    /\ UNCHANGED <<lastUniqueBoostTime, noNewBoostNotified,
                                   consecutiveNumberFailures, numberFailureNotified>>
       /\ \A outcome \in SendOutcomes :
            StaleSendSettled(outcome) =>
                /\ noNewBoostNotified'
                /\ UNCHANGED <<lastBoostData, lastUniqueBoostTime,
                               consecutiveNumberFailures, numberFailureNotified>>
       /\ \A outcome \in SendOutcomes :
            FailureSendSettled(outcome) =>
                /\ numberFailureNotified'
                /\ UNCHANGED <<lastBoostData, lastUniqueBoostTime,
                               consecutiveNumberFailures, noNewBoostNotified>>]_vars

\* C15: a boost alert and the alerts of both watches are being sent, the flags
\* still clear.
C15_ThreeSendsPending ==
    /\ Suspended("send") # {}
    /\ staleSends > 0
    /\ failureSends > 0
    /\ ~noNewBoostNotified
    /\ ~numberFailureNotified

\* The percentages from 1 % to 1000 %, in tenths of a percent
PercentagesInRange == 10 .. 10000

\* C16: the percentage of every observation handed to the reconciler, and so of
\* every handler run that hands over a boost alert and of every held identity,
\* lies between 1 % and 1000 % inclusive.
C16_PercentageInRange ==
    /\ \A h \in Suspended("analysis") :
          h.percentage # Null => h.percentage[1] \in PercentagesInRange
    /\ \A h \in Notifying : h.percentage[1] \in PercentagesInRange
    /\ lastBoostData # Null => lastBoostData[1] \in PercentagesInRange

\* C17: in every cycle that detected a percentage and both odds and sends a boost
\* alert, the BoostCalculation handed over with the alert is the result of
\* verifyBoostAccuracy on the percentage and the odds pair.
C17_AlertCarriesBoostCalculation ==
    \A h \in Notifying :
        (h.wasOdds # Null /\ h.nowOdds # Null) =>
            boostCalculation(h.percentage[1], h.wasOdds, h.nowOdds)
                = verifyBoostAccuracy(h.percentage[1], h.wasOdds, h.nowOdds, 10)

\* The post odds pay more than the pre odds: the greater odds value, or, the
\* signs left aside, the greater number.
PostGreater(pre, post) == OddsValue(post) > OddsValue(pre) \/ post[2] > pre[2]

\* C18: for a text with a labeled Was/Now pair, with or without a separator, an
\* odds parser returns no match or a pair whose post value is greater than its pre
\* value; "Was +1200 Now +900" never yields the pair (+1200, +900).
C18_LabeledPairIsBoost ==
    oddsParsed # Null =>
        \/ oddsParsed.pair = <<Null, Null>>
        \/ /\ oddsParsed.pair[1] # Null
           /\ oddsParsed.pair[2] # Null
           /\ PostGreater(oddsParsed.pair[1], oddsParsed.pair[2])

\* the digits of the odds numbers of a text
TextDigits(text) == { text[i][2] : i \in { j \in 1 .. Len(text) : IsOdds(text[j]) } }

\* C19: every token of the text that is an odds number of 3 to 5 digits parses as
\* a number, so no correction applies to it: the digits of each odds value that a
\* parser returns are the digits of an odds number of the text; 1600 and 2600
\* come back as 1600 and 2600.
C19_NumericTokenUnchanged ==
    oddsParsed # Null =>
        \A k \in 1 .. 2 :
            oddsParsed.pair[k] # Null =>
                oddsParsed.pair[k][2] \in TextDigits(oddsText)

\* C20: for the text "Was <a> <separator> Now <b>", with a separator glyph of the
\* set and odds of 3 to 5 digits, a parser returns exactly the pair (a, b), each
\* with its sign or with "+" when it has none.
C20_SeparatorPairAsRead ==
    (oddsParsed # Null /\ Len(oddsText) = 5) =>
        oddsParsed.pair = << WithSign(oddsText[2]), WithSign(oddsText[5]) >>

\* C21: for a text that holds only one odds number, an odds parser reports no
\* match: neither field of its result is filled.
C21_SingleNumberNoPair ==
    oddsParsed # Null => oddsParsed.pair = <<Null, Null>>

\* an odds string that is present and reads as zero
IsZeroOdds(odds) == odds # Null /\ odds[2] = 0

\* C22: no odds value is zero: neither of the odds that the parser returned, no
\* wasOdds or nowOdds of a handler run that sends a boost alert, and no wasOdds or
\* nowOdds of the held identity.
C22_NoZeroOdds ==
    /\ ~IsZeroOdds(detectedPreBoostOdds)
    /\ ~IsZeroOdds(detectedPostBoostOdds)
    /\ \A h \in Notifying : ~IsZeroOdds(h.wasOdds) /\ ~IsZeroOdds(h.nowOdds)
    /\ lastBoostData # Null =>
          ~IsZeroOdds(lastBoostData[2]) /\ ~IsZeroOdds(lastBoostData[3])

\* the positions of the text that hold a number
NumberPositions(words) == { i \in 1 .. Len(words) : IsNumberWord(words[i]) }

\* C23: the percentage parser returns the greatest of the candidates that its
\* word scan and its patterns collected, and null when there is none: "21% Boost"
\* gives 21, a text with "21% Boost" and a stray "5%" gives 21, and a text
\* without a number gives null.
C23_MaximumOfCandidates ==
    percentageParsed # Null =>
        LET words == percentageText
            result == percentageParsed.percentage
            candidates == percentageParsed.found \cup percentageParsed.matched
        IN  /\ candidates = {} <=> result = Null
            /\ result # Null =>
                  result[1] \in candidates /\ \A c \in candidates : c <= result[1]
            /\ words = <<Percent(21), Boost>> => result = <<21>>
            /\ ( /\ \A i \in NumberPositions(words) : words[i] \in {Percent(21), Percent(5)}
                 /\ \E i \in NumberPositions(words) :
                       words[i] = Percent(21) /\ isBoostWord(words, i) )
                  => result = <<21>>
            /\ NumberPositions(words) = {} => result = Null

\* "21% Boost 5%" has been parsed: both 21 and 5 were collected.
C23_BoostAndStrayPercent ==
    /\ percentageParsed # Null
    /\ percentageText = <<Percent(21), Boost, Percent(5)>>
    /\ percentageParsed.found = {5, 21}
    /\ percentageParsed.percentage = <<21>>

\* C24: the word scan collects every occurrence of a number from 5 to 1000 whose
\* following word is "Boost" or which holds a percent sign, also when the same
\* word stands earlier in the text before another word.
C24_EveryOccurrenceCollected ==
    percentageParsed # Null =>
        \A i \in NumberPositions(percentageText) :
            ( /\ percentageText[i][2] >= 5
              /\ percentageText[i][2] <= 1000
              /\ \/ isBoostWord(percentageText, i)
                 \/ percentageText[i][1] = "%" )
                => percentageText[i][2] \in percentageParsed.found

\* the threshold that a call of verifyBoostAccuracy works with, in percent
ThresholdOf(input) ==
    IF input.discrepancyThreshold = Null THEN 10 ELSE input.discrepancyThreshold[1]

\* the decimal odds of an odds string with digits other than 0, as the exact
\* fraction <<numerator, denominator>>
DecimalOdds(americanOdds) ==
    LET odds == americanOdds[2]
    IN  IF americanOdds[1] = "-" THEN <<100 + odds, odds>> ELSE <<odds + 100, 100>>

RECURSIVE Gcd(_, _)
Gcd(a, b) == IF b = 0 THEN a ELSE Gcd(b, a % b)

\* the fraction numerator / denominator in lowest terms, denominator positive
Reduced(numerator, denominator) ==
    LET g == Gcd(Abs(numerator), denominator)
    IN  <<numerator \div g, denominator \div g>>

\* (postDecimal - preDecimal) / preDecimal for decimal odds given as fractions
RelativeDifference(preDecimal, postDecimal) ==
    Reduced((postDecimal[1] * preDecimal[2] - preDecimal[1] * postDecimal[2]) * preDecimal[2],
            preDecimal[2] * postDecimal[2] * preDecimal[1])

\* C25: for odds strings, verifyBoostAccuracy returns as calculated percentage
\* the value of ((decimal(post) - decimal(pre)) / decimal(pre)) * 100 rounded to
\* two decimal places, i.e. a hundredth nearest to the exact value, either
\* neighbour when the exact value lies halfway (25.00 for "+100" and "+150"); as
\* discrepancy the absolute difference of the calculated and the detected
\* percentage as the program's numbers (doubles) hold them, which in hundredths
\* is the difference of the two; and as significant whether that discrepancy
\* reaches the threshold, which is 10 when none is given.
C25_VerifyComputesBoost ==
    (/\ calculatorResult # Null
     /\ calculatorResult.by = "verifyBoostAccuracy"
     /\ calculatorInput.preBoostOdds # Null
     /\ calculatorInput.postBoostOdds # Null) =>
        LET input == calculatorInput
            result == calculatorResult.calculation
            boost == RelativeDifference(DecimalOdds(input.preBoostOdds),
                                        DecimalOdds(input.postBoostOdds))
            \* the exact percentage in hundredths, as numerator / denominator
            numerator == boost[1] * 10000
            denominator == boost[2]
            nearest == RoundHalfUp(numerator, denominator)
            halfway == 2 * (nearest * denominator - numerator) = denominator
            calculated == result.actualBoostPercentage
            hundredths == IF calculated = DoubleOfRatio(nearest, 100)
                          THEN nearest
                          ELSE nearest - 1
        IN  /\ \/ calculated = DoubleOfRatio(nearest, 100)
               \/ halfway /\ calculated = DoubleOfRatio(nearest - 1, 100)
            /\ (input.preBoostOdds = Plus(100) /\ input.postBoostOdds = Plus(150))
                  => calculated = DoubleOfInt(25)
            /\ result.discrepancy =
                  DoubleAbs(DoubleSub(calculated, DoubleOfRatio(input.detectedPercentage, 10)))
            /\ MathRound(DoubleMul(result.discrepancy, DoubleOfInt(100)))
                  = DoubleOfInt(Abs(hundredths - 10 * input.detectedPercentage))
            /\ result.isSignificantDiscrepancy
                  <=> DoubleAtLeast(result.discrepancy, DoubleOfInt(ThresholdOf(input)))

\* "+100" and "+150" with a detected 15.0 % and no threshold given have been
\* verified: the discrepancy of 10 is significant.
C25_DiscrepancyAtDefaultThreshold ==
    /\ calculatorResult # Null
    /\ calculatorResult.by = "verifyBoostAccuracy"
    /\ calculatorInput.preBoostOdds = Plus(100)
    /\ calculatorInput.postBoostOdds = Plus(150)
    /\ calculatorInput.detectedPercentage = 150
    /\ calculatorInput.discrepancyThreshold = Null
    /\ calculatorResult.calculation.discrepancy = DoubleOfInt(10)
    /\ calculatorResult.calculation.isSignificantDiscrepancy

\* C26: the decimal odds of a non-zero American odds string are greater than 1
\* when it starts with "+" and greater than 0 when it starts with "-", and an
\* unsigned string converts to the value of the same digits behind "+".
C26_DecimalOddsPositive ==
    (calculatorResult # Null /\ calculatorResult.by = "americanToDecimal") =>
        LET pre == calculatorInput.preBoostOdds
            post == calculatorInput.postBoostOdds
            preDecimal == calculatorResult.preDecimal
            postDecimal == calculatorResult.postDecimal
        IN  /\ preDecimal[1] = "number"
            /\ pre[1] = "+" => DoubleLess(DoubleOfInt(1), preDecimal)
            /\ pre[1] = "-" => DoubleLess(Zero, preDecimal)
            /\ (pre[1] = "" /\ post = Plus(pre[2])) => preDecimal = postDecimal

\* "150" and "+150" have been converted to 2.5, or "-200" to 1.5.
C26_UnsignedAndSignedConverted ==
    /\ calculatorResult # Null
    /\ calculatorResult.by = "americanToDecimal"
    /\ \/ /\ calculatorInput.preBoostOdds = Unsigned(150)
          /\ calculatorInput.postBoostOdds = Plus(150)
          /\ calculatorResult.preDecimal = DoubleOfRatio(5, 2)
       \/ /\ calculatorInput.preBoostOdds = Minus(200)
          /\ calculatorResult.preDecimal = DoubleOfRatio(3, 2)

\* C27: a step of the stale watch (its callback hands over its alert or comes
\* back from the send) changes of the reconciler state nothing but
\* noNewBoostNotified, and a step of the failure watch nothing but
\* numberFailureNotified: the identity, the failure counter, the time of the last
\* unique boost and the other watch's flag stay as they are.
C27_WatchesTouchOwnFlag ==
    [][ /\ staleSends' # staleSends =>
              UNCHANGED <<lastBoostData, lastUniqueBoostTime,
                          consecutiveNumberFailures, numberFailureNotified,
                          failureSends, detected>>
        /\ failureSends' # failureSends =>
              UNCHANGED <<lastBoostData, lastUniqueBoostTime,
                          consecutiveNumberFailures, noNewBoostNotified,
                          staleSends, detected>>
        /\ noNewBoostNotified' /\ ~noNewBoostNotified => staleSends' = staleSends - 1
        /\ numberFailureNotified' /\ ~numberFailureNotified =>
              failureSends' = failureSends - 1 ]_vars

\* Both watches have set their flag, with an identity held and the failure
\* counter at its threshold.
C27_BothFlagsSet ==
    /\ noNewBoostNotified
    /\ numberFailureNotified
    /\ lastBoostData # Null
    /\ consecutiveNumberFailures >= MAX_NUMBER_FAILURES

\* C28: whenever no callback of the failure watch is suspended in its alert
\* send, a set numberFailureNotified implies that the failure counter is at or
\* above MAX_NUMBER_FAILURES.
C28_FailureFlagImpliesThreshold ==
    (failureSends = 0 /\ numberFailureNotified) =>
        consecutiveNumberFailures >= MAX_NUMBER_FAILURES

\* C29: at most one captureScreen body executes at a time: a tick or an
\* immediate-capture request that arrives while a capture is in progress
\* returns without starting a capture, without emitting and without being kept
\* for later, and isCapturing is false again after the end of every capture,
\* whatever its outcome.
C29_OneCaptureAtATime ==
    /\ [](captureBodies <= 1 /\ (isCapturing <=> captureBodies = 1))
    /\ [][ /\ (isCapturing /\ IntervalTick) => UNCHANGED vars
           /\ (isCapturing /\ RescanTimer) =>
                 UNCHANGED <<isCapturing, captureBodies, handlers, cycles,
                             reconciler, detected, alerts>>
           /\ captureBodies' < captureBodies => ~isCapturing' ]_vars

\* A capture that emitted and a capture that ended without a handler run are
\* over, a handler run is still analysing, and the next capture is in progress.
C29_NextCaptureDuringAnalysis ==
    /\ isCapturing
    /\ captureBodies = 1
    /\ cycles >= 1
    /\ consecutiveNumberFailures >= 1
    /\ InFlight >= 1

\* C30: whenever an identity is held, its wasOdds and its nowOdds are not null,
\* its wasOdds is not zero, and its percentage is the one calculated from these
\* two odds.
C30_IdentityPercentageFromItsOdds ==
    lastBoostData # Null =>
        /\ lastBoostData[2] # Null
        /\ lastBoostData[3] # Null
        /\ OddsValue(lastBoostData[2]) # 0
        /\ <<lastBoostData[1]>> = CalculatePercentage(lastBoostData[2], lastBoostData[3])

====
